---- MODULE Spec2Model ----
(***************************************************************************)
(* Usage-management core of the Lab Nocturne image API: the upload         *)
(* pipeline, the two-phase deletion, the lifecycle (cleanup) worker, the   *)
(* token-bucket rate limiter and the bandwidth accountant.                 *)
(*                                                                         *)
(* Byte sizes are counted in MB (1 = 1024*1024 bytes) and time of the      *)
(* stores in days, the units of the thresholds in the source.              *)
(***************************************************************************)
EXTENDS Integers, Sequences, FiniteSets, TLC

(***************************************************************************)
(* Bounds of the model.                                                    *)
(***************************************************************************)
MaxFiles == 3
MaxClock == 39
MaxRaceFiles == 3
MaxLifecycleFiles == 1
MaxCalls == 4
MaxTime == 3
MaxOver == 2
MaxRuns == 2
MaxWorkerFiles == 3
MaxKeyCalls == 4
MaxWindowCalls == 4
MaxGateCalls == 4
MaxGateFiles == 1
MaxSweepCalls == 3
MaxOrphanFiles == 2
MaxPlanCalls == 4
MaxPurgeFiles == 2
MaxDeleteFiles == 2

(***************************************************************************)
(* Program constants.                                                      *)
(***************************************************************************)
DefaultMaxFileSizeTest == 10
DefaultMaxFileSizeLive == 100
QuotaTest == 100
QuotaStarter == 10240
QuotaPro == 102400
TrialRetentionDays == 7
PurgeRetentionDays == 30
RateTest == 100
RateStarter == 1000
RatePro == 10000
\* time.Hour, in ticks of the server clock (a tick is half an hour).
Hour == 2

NULL == -1

\* The accounts: one test key (GenerateTestKey) and one live key (checkout).
Users ==
    { [id |-> "u1", apiKey |-> "k1", keyType |-> "test", plan |-> "test"],
      [id |-> "u2", apiKey |-> "k2", keyType |-> "live", plan |-> "starter"] }

UserIDs == { u.id : u \in Users }
APIKeys == { u.apiKey : u \in Users } \cup { "bad" }
UserByID(uid) == CHOOSE u \in Users : u.id = uid

\* Inputs of an upload request.
Sizes == { 10, 80 }
Kinds == { "jpg", "unknown" }
\* Values of MAX_FILE_SIZE_TEST in the environment ("" = unset).
EnvMaxFileSizeTest == { "", "104857600", "100MB" }
\* The call of the checks of an upload that fails, if one does.
Faults == { "none", "FindByAPIKey", "GetStorageUsage", "Open" }

\* The request-handling tasks that run Upload concurrently.
Uploaders == { 1, 2 }
TickSteps == { 8, 31 }

\* The goroutines that call the limiter, and the keys they present.
Callers == { 1, 2, 3 }
IPAddresses == { "a1", "a2" }
Windows == { 1, Hour, 3 }
Requesters == { 1 }
Sweepers == { 1, 2 }
MaxAges == { 1, Hour }
\* The plans an account is moved between by UpdatePlan.
Plans == { "test", "starter" }
IPLimits == { 1, 2 }
BurstLimits == { 1, 2, 3 }

\* The days the bandwidth pass is run for, as they appear in log file names.
Dates == { "d1", "d2" }

VARIABLES
    maxFileSizeTest,  \* FileService.maxFileSizeTest
    maxFileSizeLive,  \* FileService.maxFileSizeLive
    files,            \* rows of table files
    objects,          \* keys present in the S3 bucket
    now,              \* NOW() of the database, in days
    nextId,           \* the next ULID
    idLimit,          \* the number of ULIDs the run may generate
    up,               \* the Upload calls in flight
    del,              \* the DeleteFile call in flight
    wk,               \* the cleanup worker pass
    cancelled,        \* ctx.Done() of the worker pass
    ret,              \* the value the last step returned to its caller, if any
    limiters,         \* Limiter.limiters
    ipLimiters,       \* Limiter.ipLimiters
    mu,               \* Limiter.mu: the caller that holds it
    call,             \* the Allow and AllowIP calls in flight
    clock,            \* time.Now() of the server, in ticks
    batch,            \* history: per key, the calls of the current instant
    ncalls,           \* history: the number of allow calls made
    logBucket,        \* the objects of the CloudFront log bucket
    bandwidthStats,   \* rows of table bandwidth_stats
    bw,               \* the ProcessLogFiles call in flight
    lastRun           \* history: the last ProcessLogFiles call that returned

storeVars == << maxFileSizeTest, maxFileSizeLive, files, objects, now, nextId,
                idLimit, up, del, wk, cancelled >>
limiterVars == << limiters, ipLimiters, mu, call, clock, batch, ncalls >>
bandwidthVars == << logBucket, bandwidthStats, bw, lastRun >>

vars == << storeVars, ret, limiterVars, bandwidthVars >>

NoReturn == [ op |-> "none" ]

(***************************************************************************)
(* Stores.                                                                 *)
(***************************************************************************)
RECURSIVE SumSize(_)
SumSize(rows) ==
    IF rows = {} THEN 0
    ELSE LET r == CHOOSE x \in rows : TRUE
         IN r.size + SumSize(rows \ {r})

\* Variant: the soft-deleted files are counted in the usage.
GetStorageUsageCountingDeleted(userID) ==
    SumSize({ r \in files : r.user = userID })

\* SELECT COALESCE(SUM(size_bytes), 0) ... WHERE user_id = $1 AND deleted_at IS NULL
GetStorageUsage(userID) ==
    SumSize({ r \in files : r.user = userID /\ r.deletedAt = NULL })

\* WHERE id = $1 AND deleted_at IS NULL
FindByID(ulid) == { r \in files : r.id = ulid /\ r.deletedAt = NULL }

\* WHERE user_id = $1 AND deleted_at IS NULL: the rows of the listing, all
\* pages together (the count of the listing is their number).
FindByUserID(userID) == { r \in files : r.user = userID /\ r.deletedAt = NULL }

\* WHERE api_key = $1
FindByAPIKey(apiKey) == { u \in Users : u.apiKey = apiKey }

\* strconv.ParseInt of a byte count of the environment, in MB.
ParseSize(str) ==
    CASE str = "104857600" -> [ ok |-> TRUE, value |-> 100 ]
      [] OTHER -> [ ok |-> FALSE, value |-> 0 ]

\* The test limit loadMaxFileSizes reads from MAX_FILE_SIZE_TEST: the default
\* when the variable is unset or is no number.
loadMaxFileSizes(env) ==
    IF env # "" /\ ParseSize(env).ok THEN ParseSize(env).value
    ELSE DefaultMaxFileSizeTest

\* Variant: the key type is not consulted, the live limit applies to all.
getMaxFileSizeIgnoringKeyType(keyType) == maxFileSizeLive

getMaxFileSizeForUser(keyType) ==
    IF keyType = "live" THEN maxFileSizeLive ELSE maxFileSizeTest

getStorageQuotaForPlan(plan) ==
    CASE plan = "starter" -> QuotaStarter
      [] plan = "pro" -> QuotaPro
      [] OTHER -> QuotaTest

\* StatsService.GetUsageStats, the storage part. The percentage
\* float64(totalBytes) / float64(storageQuota) * 100 is kept as the exact
\* fraction num/den.
GetUsageStats(user) ==
    LET totalBytes == GetStorageUsage(user.id)
        storageQuota == CASE user.plan = "test" -> 100
                          [] user.plan = "starter" -> 10240
                          [] user.plan = "pro" -> 102400
                          [] OTHER -> 100
    IN [ usedMB |-> totalBytes, quotaMB |-> storageQuota,
         percentageUsed |-> IF storageQuota > 0
                            THEN [ num |-> totalBytes * 100, den |-> storageQuota ]
                            ELSE [ num |-> 0, den |-> 1 ] ]

\* filetype.Match + the allow-list: TRUE when the sniffed kind is allowed.
validateFileType(kind) == kind \in { "jpg", "jpeg", "png", "gif", "webp", "svg" }

\* The S3 key is derived from the ULID and the extension.
generateFileKeys(id, extension) ==
    [ rawULID |-> id, externalID |-> << "img_", id >>, s3Key |-> << id, extension >> ]

(***************************************************************************)
(* FileService.Upload                                                      *)
(***************************************************************************)
IdleUp == [ pc |-> "idle" ]

\* What an Upload call returns: the error kind, or "OK" with the file. by,
\* apiKey and size name the call.
UploadReturn(u, apiKey, size, res, fault) ==
    [ op |-> "Upload", by |-> u, apiKey |-> apiKey, size |-> size,
      result |-> res, fault |-> fault ]

\* Variant: the object is stored before the request is validated, so a
\* rejected request leaves its object behind.
RejectAfterPut(u, apiKey, size, res, fault) ==
    /\ up' = [up EXCEPT ![u] = IdleUp]
    /\ ret' = UploadReturn(u, apiKey, size, res, fault)
    /\ objects' = objects \cup { << nextId, "tmp" >> }
    /\ UNCHANGED << nextId, files >>

\* The early returns of Upload: the call ends with the error and has written
\* nothing.
Reject(u, apiKey, size, res, fault) ==
    /\ up' = [up EXCEPT ![u] = IdleUp]
    /\ ret' = UploadReturn(u, apiKey, size, res, fault)
    /\ UNCHANGED << nextId, files, objects >>

\* Variant: the size of the new file is left out of the comparison.
StorageExceededWithoutSize(currentUsage, size, storageQuota) ==
    currentUsage > storageQuota

\* Variant: the new file alone is compared with the quota.
StorageExceededFileOnly(currentUsage, size, storageQuota) ==
    size > storageQuota

\* Variant: an upload that brings the usage exactly up to the quota is
\* rejected.
StorageExceededAtQuota(currentUsage, size, storageQuota) ==
    currentUsage + size >= storageQuota

\* currentUsage+fileHeader.Size > storageQuota
StorageExceeded(currentUsage, size, storageQuota) ==
    currentUsage + size > storageQuota

\* Steps 1-7: authenticate, size limit, quota check, open and read, sniff,
\* key generation. fault names the call that fails if the upload gets to it:
\* the key lookup, the usage query or the reading of the uploaded file. The
\* return value records the failure that happened.
UploadBegin(u, apiKey, size, kind, fault) ==
    /\ up[u].pc = "idle"
    /\ LET found == IF fault = "FindByAPIKey" THEN {} ELSE FindByAPIKey(apiKey) IN
       IF found = {} THEN
           Reject(u, apiKey, size, "InvalidCredential",
                  IF fault = "FindByAPIKey" THEN fault ELSE "none")
       ELSE LET user == CHOOSE x \in found : TRUE
                currentUsage == GetStorageUsage(user.id)
                storageQuota == getStorageQuotaForPlan(user.plan)
            IN
            IF size > getMaxFileSizeForUser(user.keyType) THEN
                Reject(u, apiKey, size, "FileTooLarge", "none")
            ELSE IF fault = "GetStorageUsage" THEN
                Reject(u, apiKey, size, "InternalError", fault)
            ELSE IF StorageExceeded(currentUsage, size, storageQuota) THEN
                Reject(u, apiKey, size, "QuotaExceeded", "none")
            ELSE IF fault = "Open" THEN
                Reject(u, apiKey, size, "InternalError", fault)
            ELSE IF ~validateFileType(kind) THEN
                Reject(u, apiKey, size, "UnsupportedType", "none")
            ELSE
                /\ nextId <= idLimit
                /\ nextId' = nextId + 1
                /\ up' = [up EXCEPT ![u] =
                       [ pc |-> "put", apiKey |-> apiKey, user |-> user.id,
                         size |-> size, quota |-> storageQuota,
                         id |-> nextId,
                         s3Key |-> generateFileKeys(nextId, kind).s3Key,
                         others |-> << >> ]]
                /\ ret' = NoReturn
                /\ UNCHANGED << files, objects >>
    /\ UNCHANGED bandwidthVars
    /\ UNCHANGED << maxFileSizeTest, maxFileSizeLive, now,
                    idLimit, del, wk, cancelled >>

\* Upload called by a request that did not come through the limiter.
UploadCheck(u, apiKey, size, kind, fault) ==
    /\ UploadBegin(u, apiKey, size, kind, fault)
    /\ UNCHANGED limiterVars

\* Variant: the error of PutObject is ignored and the metadata is written.
UploadPutIgnoringError(u, ok) ==
    /\ up[u].pc = "put"
    /\ objects' = IF ok THEN objects \cup { up[u].s3Key } ELSE objects
    /\ up' = [up EXCEPT ![u].pc = "create"]
    /\ ret' = NoReturn
    /\ UNCHANGED << limiterVars, bandwidthVars >>
    /\ UNCHANGED << maxFileSizeTest, maxFileSizeLive, files, now, nextId,
                    idLimit, del, wk, cancelled >>

\* Step 9: s3Client.PutObject.
UploadPut(u, ok) ==
    /\ up[u].pc = "put"
    /\ IF ok
       THEN /\ objects' = objects \cup { up[u].s3Key }
            /\ up' = [up EXCEPT ![u].pc = "create"]
            /\ ret' = NoReturn
       ELSE /\ up' = [up EXCEPT ![u] = IdleUp]
            /\ ret' = UploadReturn(u, up[u].apiKey, up[u].size, "InternalError", "none")
            /\ UNCHANGED objects
    /\ UNCHANGED << limiterVars, bandwidthVars >>
    /\ UNCHANGED << maxFileSizeTest, maxFileSizeLive, files, now, nextId,
                    idLimit, del, wk, cancelled >>

\* Every other upload of the same account that has passed its quota check
\* learns of this commit (history only).
NoteCommit(u) ==
    [ v \in Uploaders |->
        IF v # u /\ up[v].pc \in { "put", "create" } /\ up[v].user = up[u].user
        THEN [up[v] EXCEPT !.others = Append(@, up[u].size)]
        ELSE up[v] ]

\* The row Upload inserts (uploaded_at = NOW()).
NewFile(u) ==
    [ id |-> up[u].id, user |-> up[u].user, size |-> up[u].size,
      s3Key |-> up[u].s3Key, uploadedAt |-> now, deletedAt |-> NULL ]

\* The return of a committed Upload: the file, and as history the quota it
\* was checked against and the sizes other uploads of the account committed
\* between its quota check and its commit.
UploadCommitted(u) ==
    [ op |-> "Upload", by |-> u, apiKey |-> up[u].apiKey, size |-> up[u].size,
      result |-> "OK", fault |-> "none", file |-> NewFile(u),
      quota |-> up[u].quota, others |-> up[u].others ]

\* Variant: a failed Create returns its error without the compensating
\* delete.
UploadCreateWithoutCompensation(u, ok) ==
    /\ up[u].pc = "create"
    /\ IF ok
       THEN /\ files' = files \cup { NewFile(u) }
            /\ up' = [NoteCommit(u) EXCEPT ![u] = IdleUp]
            /\ ret' = UploadCommitted(u)
       ELSE /\ up' = [up EXCEPT ![u] = IdleUp]
            /\ ret' = UploadReturn(u, up[u].apiKey, up[u].size, "InternalError", "none")
            /\ UNCHANGED files
    /\ UNCHANGED << limiterVars, bandwidthVars >>
    /\ UNCHANGED << maxFileSizeTest, maxFileSizeLive, objects, now, nextId,
                    idLimit, del, wk, cancelled >>

\* Variant: a Create that returns an error has inserted the row all the same.
UploadCreateCommittingOnError(u, ok) ==
    /\ up[u].pc = "create"
    /\ files' = files \cup { NewFile(u) }
    /\ IF ok
       THEN /\ up' = [NoteCommit(u) EXCEPT ![u] = IdleUp]
            /\ ret' = UploadCommitted(u)
       ELSE /\ up' = [up EXCEPT ![u].pc = "compensate"]
            /\ ret' = NoReturn
    /\ UNCHANGED << limiterVars, bandwidthVars >>
    /\ UNCHANGED << maxFileSizeTest, maxFileSizeLive, objects, now, nextId,
                    idLimit, del, wk, cancelled >>

\* Step 10: fileStore.Create; on failure the compensating delete follows.
UploadCreate(u, ok) ==
    /\ up[u].pc = "create"
    /\ IF ok
       THEN /\ files' = files \cup { NewFile(u) }
            /\ up' = [NoteCommit(u) EXCEPT ![u] = IdleUp]
            /\ ret' = UploadCommitted(u)
       ELSE /\ up' = [up EXCEPT ![u].pc = "compensate"]
            /\ ret' = NoReturn
            /\ UNCHANGED files
    /\ UNCHANGED << limiterVars, bandwidthVars >>
    /\ UNCHANGED << maxFileSizeTest, maxFileSizeLive, objects, now, nextId,
                    idLimit, del, wk, cancelled >>

\* s3Client.DeleteObject after a failed Create (its error is ignored).
UploadCompensate(u, ok) ==
    /\ up[u].pc = "compensate"
    /\ objects' = IF ok THEN objects \ { up[u].s3Key } ELSE objects
    /\ up' = [up EXCEPT ![u] = IdleUp]
    /\ ret' = UploadReturn(u, up[u].apiKey, up[u].size, "InternalError", "none")
    /\ UNCHANGED << limiterVars, bandwidthVars >>
    /\ UNCHANGED << maxFileSizeTest, maxFileSizeLive, files, now, nextId,
                    idLimit, del, wk, cancelled >>

(***************************************************************************)
(* FileService.DeleteFile                                                  *)
(***************************************************************************)
\* Variant: the row is removed instead of marked.
SoftDeleteRemovingRow(ulid) == { r \in files : r.id # ulid }

\* UPDATE files SET deleted_at = NOW() WHERE id = $1 AND deleted_at IS NULL
SoftDelete(ulid) ==
    { IF r.id = ulid /\ r.deletedAt = NULL THEN [r EXCEPT !.deletedAt = now] ELSE r
      : r \in files }

\* The error (or "OK") a DeleteFile call returns; fileID and userID name the
\* call.
DeleteReturn(fileID, userID, res) ==
    [ op |-> "DeleteFile", fileID |-> fileID, userID |-> userID, result |-> res ]

\* Variant: the owner of the file is not compared with the caller.
DeleteFindWithoutOwnerCheck(fileID, userID, dbOK) ==
    /\ del.pc = "idle"
    /\ LET found == IF dbOK THEN FindByID(fileID) ELSE {} IN
       IF found = {} THEN
           /\ ret' = DeleteReturn(fileID, userID, "FileNotFound")
           /\ UNCHANGED del
       ELSE
           /\ del' = [ pc |-> "softdelete", id |-> fileID, user |-> userID ]
           /\ ret' = NoReturn
    /\ UNCHANGED << limiterVars, bandwidthVars >>
    /\ UNCHANGED << maxFileSizeTest, maxFileSizeLive, files, objects, now, nextId,
                    idLimit, up, wk, cancelled >>

\* FindByID and the ownership check. dbOK is the outcome of the query.
DeleteFind(fileID, userID, dbOK) ==
    /\ del.pc = "idle"
    /\ LET found == IF dbOK THEN FindByID(fileID) ELSE {} IN
       IF found = {} THEN
           /\ ret' = DeleteReturn(fileID, userID, "FileNotFound")
           /\ UNCHANGED del
       ELSE LET file == CHOOSE r \in found : TRUE IN
           IF file.user # userID
           THEN /\ ret' = DeleteReturn(fileID, userID, "FileNotFound")
                /\ UNCHANGED del
           ELSE /\ del' = [ pc |-> "softdelete", id |-> fileID, user |-> userID ]
                /\ ret' = NoReturn
    /\ UNCHANGED << limiterVars, bandwidthVars >>
    /\ UNCHANGED << maxFileSizeTest, maxFileSizeLive, files, objects, now, nextId,
                    idLimit, up, wk, cancelled >>

\* fileStore.SoftDelete: no row affected (or a failed statement) is an error.
DeleteSoft(dbOK) ==
    /\ del.pc = "softdelete"
    /\ IF dbOK /\ FindByID(del.id) # {}
       THEN /\ files' = SoftDelete(del.id)
            /\ ret' = DeleteReturn(del.id, del.user, "OK")
       ELSE /\ ret' = DeleteReturn(del.id, del.user, "InternalError")
            /\ UNCHANGED files
    /\ del' = [ pc |-> "idle" ]
    /\ UNCHANGED << limiterVars, bandwidthVars >>
    /\ UNCHANGED << maxFileSizeTest, maxFileSizeLive, objects, now, nextId,
                    idLimit, up, wk, cancelled >>

\* A whole DeleteFile call of another request, its two statements running
\* with nothing in between and without a store failure, while the call of
\* del may be suspended between its own two statements.
DeleteFile(fileID, userID) ==
    /\ LET found == FindByID(fileID) IN
       IF found = {} THEN
           /\ ret' = DeleteReturn(fileID, userID, "FileNotFound")
           /\ UNCHANGED files
       ELSE LET file == CHOOSE r \in found : TRUE IN
           IF file.user # userID
           THEN /\ ret' = DeleteReturn(fileID, userID, "FileNotFound")
                /\ UNCHANGED files
           ELSE /\ files' = SoftDelete(fileID)
                /\ ret' = DeleteReturn(fileID, userID, "OK")
    /\ UNCHANGED << limiterVars, bandwidthVars >>
    /\ UNCHANGED << maxFileSizeTest, maxFileSizeLive, objects, now, nextId,
                    idLimit, up, del, wk, cancelled >>

(***************************************************************************)
(* CleanupService: the cleanup worker pass (runWorker).                    *)
(***************************************************************************)
RECURSIVE OrderBy(_, _)
\* ORDER BY k ASC (ties by id).
OrderBy(S, k) ==
    IF S = {} THEN << >>
    ELSE LET m == CHOOSE x \in S : \A y \in S :
                     \/ k[x] < k[y]
                     \/ (k[x] = k[y] /\ x.id <= y.id)
         IN << m >> \o OrderBy(S \ {m}, k)

\* The columns of a scanned row the cleanup loop reads, and deleted_at as
\* the scan read it.
Candidates(rows) ==
    [ i \in 1 .. Len(rows) |->
        [ id |-> rows[i].id, s3Key |-> rows[i].s3Key, size |-> rows[i].size,
          deletedAt |-> rows[i].deletedAt ] ]

\* Variant: the trial scan selects soft-deleted rows too.
FindExpiredTestFilesDeletedOrNot ==
    LET S == { r \in files : /\ UserByID(r.user).keyType = "test"
                             /\ r.uploadedAt < now - TrialRetentionDays }
    IN Candidates(OrderBy(S, [ r \in S |-> r.uploadedAt ]))

\* u.key_type = 'test' AND f.uploaded_at < NOW() - INTERVAL '7 days'
\* AND f.deleted_at IS NULL ORDER BY f.uploaded_at ASC
FindExpiredTestFiles ==
    LET S == { r \in files : /\ UserByID(r.user).keyType = "test"
                             /\ r.uploadedAt < now - TrialRetentionDays
                             /\ r.deletedAt = NULL }
    IN Candidates(OrderBy(S, [ r \in S |-> r.uploadedAt ]))

\* Variant: the purge scan selects every soft-deleted row, whatever its age.
FindExpiredSoftDeletedOfAnyAge ==
    LET S == { r \in files : r.deletedAt # NULL }
    IN Candidates(OrderBy(S, [ r \in S |-> r.deletedAt ]))

\* deleted_at < NOW() - INTERVAL '30 days' ORDER BY deleted_at ASC
FindExpiredSoftDeleted ==
    LET S == { r \in files : /\ r.deletedAt # NULL
                             /\ r.deletedAt < now - PurgeRetentionDays }
    IN Candidates(OrderBy(S, [ r \in S |-> r.deletedAt ]))

\* Variant: the rows of the owner of the file are deleted with it.
PermanentlyDeleteByOwner(ulid) ==
    { r \in files : \A x \in files : x.id = ulid => r.user # x.user }

\* DELETE FROM files WHERE id = $1
PermanentlyDelete(ulid) == { r \in files : r.id # ulid }

IdleWk == [ pc |-> "idle" ]

\* History of a scan that has not run.
NoScan == [ ran |-> FALSE ]

\* History of the scan that ends with (count, err): whether its query
\* failed, whether it stopped at a cancellation check, the candidates it
\* found, and the files each of its two deletes succeeded and failed for.
ScanReport(w, count, err) ==
    IF w.pc = "find"
    THEN [ ran |-> TRUE, count |-> count, err |-> err,
           queryFailed |-> w.queryFailed, stopped |-> FALSE, list |-> << >>,
           s3Deleted |-> {}, s3Failed |-> {}, dbDeleted |-> {}, dbFailed |-> {} ]
    ELSE [ ran |-> TRUE, count |-> count, err |-> err,
           queryFailed |-> FALSE, stopped |-> w.stopped, list |-> w.list,
           s3Deleted |-> w.s3Deleted, s3Failed |-> w.s3Failed,
           dbDeleted |-> w.dbDeleted, dbFailed |-> w.dbFailed ]

\* The return of one scan: the test scan is followed by the soft-deleted
\* scan, and the soft-deleted scan ends the pass.
EndScan(w, count, err) ==
    IF w.scan = "test"
    THEN [ pc |-> "find", scan |-> "soft", dryRun |-> w.dryRun,
           testCount |-> count, testErr |-> err,
           queryFailed |-> FALSE, test |-> ScanReport(w, count, err) ]
    ELSE IdleWk

\* What runWorker reports when the scan that ends is the last one. test and
\* soft are the histories of its two scans.
WorkerReturn(w, count, err) ==
    IF w.scan = "test" THEN NoReturn
    ELSE [ op |-> "runWorker", dryRun |-> w.dryRun,
           testCount |-> w.testCount, testErr |-> w.testErr,
           softCount |-> count, softErr |-> err,
           test |-> w.test, soft |-> ScanReport(w, count, err) ]

\* Variant: the loop ends at the first file whose deletion failed.
ContinueUntilError(w) ==
    IF w.idx + 1 > Len(w.list) \/ w.lastError
    THEN EndScan(w, w.successCount, w.lastError)
    ELSE [w EXCEPT !.pc = "loop", !.idx = @ + 1]

\* The end of one iteration of the loop over the files.
Continue(w) ==
    IF w.idx + 1 > Len(w.list)
    THEN EndScan(w, w.successCount, w.lastError)
    ELSE [w EXCEPT !.pc = "loop", !.idx = @ + 1]

ContinueReturn(w) ==
    IF w.idx + 1 > Len(w.list)
    THEN WorkerReturn(w, w.successCount, w.lastError)
    ELSE NoReturn

WorkerStart(dry) ==
    /\ wk.pc = "idle"
    /\ wk' = [ pc |-> "find", scan |-> "test", dryRun |-> dry,
               testCount |-> 0, testErr |-> FALSE,
               queryFailed |-> FALSE, test |-> NoScan ]
    /\ cancelled' = FALSE
    /\ UNCHANGED << limiterVars, bandwidthVars >>
    /\ UNCHANGED << maxFileSizeTest, maxFileSizeLive, files, objects, now, nextId,
                    idLimit, up, del >>
    /\ ret' = NoReturn

\* signal.Notify -> cancel()
Cancel ==
    /\ wk.pc # "idle"
    /\ ~cancelled
    /\ cancelled' = TRUE
    /\ UNCHANGED << limiterVars, bandwidthVars >>
    /\ UNCHANGED << maxFileSizeTest, maxFileSizeLive, files, objects, now, nextId,
                    idLimit, up, del, wk >>
    /\ ret' = NoReturn

\* Step 1 of a scan: the query for the candidates.
CleanupFind(dbOK) ==
    /\ wk.pc = "find"
    /\ LET list == IF wk.scan = "test" THEN FindExpiredTestFiles
                   ELSE FindExpiredSoftDeleted
       IN IF ~dbOK \/ cancelled THEN
              /\ wk' = EndScan([wk EXCEPT !.queryFailed = TRUE], 0, TRUE)
              /\ ret' = WorkerReturn([wk EXCEPT !.queryFailed = TRUE], 0, TRUE)
          ELSE IF Len(list) = 0 THEN
              /\ wk' = EndScan(wk, 0, FALSE)
              /\ ret' = WorkerReturn(wk, 0, FALSE)
          ELSE
              /\ wk' = [ pc |-> "loop", scan |-> wk.scan, dryRun |-> wk.dryRun,
                         testCount |-> wk.testCount, testErr |-> wk.testErr,
                         test |-> wk.test,
                         list |-> list, idx |-> 1, successCount |-> 0,
                         lastError |-> FALSE, stopped |-> FALSE,
                         s3Deleted |-> {}, s3Failed |-> {},
                         dbDeleted |-> {}, dbFailed |-> {} ]
              /\ ret' = NoReturn
    /\ UNCHANGED << limiterVars, bandwidthVars >>
    /\ UNCHANGED << maxFileSizeTest, maxFileSizeLive, files, objects, now, nextId,
                    idLimit, up, del, cancelled >>

\* Variant: a failed S3 delete does not skip the metadata delete.
CleanupObjectIgnoringError(s3OK) ==
    /\ wk.pc = "loop"
    /\ LET file == wk.list[wk.idx] IN
       IF cancelled THEN
           /\ wk' = EndScan([wk EXCEPT !.stopped = TRUE], wk.successCount, TRUE)
           /\ ret' = WorkerReturn([wk EXCEPT !.stopped = TRUE],
                                  wk.successCount, TRUE)
           /\ UNCHANGED objects
       ELSE IF wk.dryRun THEN
           /\ wk' = Continue([wk EXCEPT !.successCount = @ + 1])
           /\ ret' = ContinueReturn([wk EXCEPT !.successCount = @ + 1])
           /\ UNCHANGED objects
       ELSE
           /\ objects' = IF s3OK THEN objects \ { file.s3Key } ELSE objects
           /\ wk' = IF s3OK
                    THEN [wk EXCEPT !.pc = "db", !.s3Deleted = @ \cup { file.id }]
                    ELSE [wk EXCEPT !.pc = "db", !.lastError = TRUE,
                                    !.s3Failed = @ \cup { file.id }]
           /\ ret' = NoReturn
    /\ UNCHANGED << limiterVars, bandwidthVars >>
    /\ UNCHANGED << maxFileSizeTest, maxFileSizeLive, files, now, nextId,
                    idLimit, up, del, cancelled >>

\* Variant: the loop does not look at the cancellation of the context.
CleanupObjectIgnoringCancel(s3OK) ==
    /\ wk.pc = "loop"
    /\ LET file == wk.list[wk.idx] IN
       IF wk.dryRun THEN
           /\ wk' = Continue([wk EXCEPT !.successCount = @ + 1])
           /\ ret' = ContinueReturn([wk EXCEPT !.successCount = @ + 1])
           /\ UNCHANGED objects
       ELSE IF s3OK THEN
           /\ objects' = objects \ { file.s3Key }
           /\ wk' = [wk EXCEPT !.pc = "db", !.s3Deleted = @ \cup { file.id }]
           /\ ret' = NoReturn
       ELSE
           /\ wk' = Continue([wk EXCEPT !.lastError = TRUE,
                                        !.s3Failed = @ \cup { file.id }])
           /\ ret' = ContinueReturn([wk EXCEPT !.lastError = TRUE,
                                               !.s3Failed = @ \cup { file.id }])
           /\ UNCHANGED objects
    /\ UNCHANGED << limiterVars, bandwidthVars >>
    /\ UNCHANGED << maxFileSizeTest, maxFileSizeLive, files, now, nextId,
                    idLimit, up, del, cancelled >>

\* Variant: the dry-run flag is not honoured by the loop.
CleanupObjectIgnoringDryRun(s3OK) ==
    /\ wk.pc = "loop"
    /\ LET file == wk.list[wk.idx] IN
       IF cancelled THEN
           /\ wk' = EndScan([wk EXCEPT !.stopped = TRUE], wk.successCount, TRUE)
           /\ ret' = WorkerReturn([wk EXCEPT !.stopped = TRUE],
                                  wk.successCount, TRUE)
           /\ UNCHANGED objects
       ELSE IF s3OK THEN
           /\ objects' = objects \ { file.s3Key }
           /\ wk' = [wk EXCEPT !.pc = "db", !.s3Deleted = @ \cup { file.id }]
           /\ ret' = NoReturn
       ELSE
           /\ wk' = Continue([wk EXCEPT !.lastError = TRUE,
                                        !.s3Failed = @ \cup { file.id }])
           /\ ret' = ContinueReturn([wk EXCEPT !.lastError = TRUE,
                                               !.s3Failed = @ \cup { file.id }])
           /\ UNCHANGED objects
    /\ UNCHANGED << limiterVars, bandwidthVars >>
    /\ UNCHANGED << maxFileSizeTest, maxFileSizeLive, files, now, nextId,
                    idLimit, up, del, cancelled >>

\* Variant: the delete of an object that is not in the store is an error.
CleanupObjectMissingIsError(s3OK) ==
    /\ wk.pc = "loop"
    /\ LET file == wk.list[wk.idx] IN
       IF cancelled THEN
           /\ wk' = EndScan([wk EXCEPT !.stopped = TRUE], wk.successCount, TRUE)
           /\ ret' = WorkerReturn([wk EXCEPT !.stopped = TRUE],
                                  wk.successCount, TRUE)
           /\ UNCHANGED objects
       ELSE IF wk.dryRun THEN
           /\ wk' = Continue([wk EXCEPT !.successCount = @ + 1])
           /\ ret' = ContinueReturn([wk EXCEPT !.successCount = @ + 1])
           /\ UNCHANGED objects
       ELSE IF s3OK /\ file.s3Key \in objects THEN
           /\ objects' = objects \ { file.s3Key }
           /\ wk' = [wk EXCEPT !.pc = "db", !.s3Deleted = @ \cup { file.id }]
           /\ ret' = NoReturn
       ELSE
           /\ wk' = Continue([wk EXCEPT !.lastError = TRUE,
                                        !.s3Failed = @ \cup { file.id }])
           /\ ret' = ContinueReturn([wk EXCEPT !.lastError = TRUE,
                                               !.s3Failed = @ \cup { file.id }])
           /\ UNCHANGED objects
    /\ UNCHANGED << limiterVars, bandwidthVars >>
    /\ UNCHANGED << maxFileSizeTest, maxFileSizeLive, files, now, nextId,
                    idLimit, up, del, cancelled >>

\* Variant: with the object of the file, the loop deletes every object that
\* no row names.
CleanupObjectSweepingUntracked(s3OK) ==
    /\ wk.pc = "loop"
    /\ LET file == wk.list[wk.idx] IN
       IF cancelled THEN
           /\ wk' = EndScan([wk EXCEPT !.stopped = TRUE], wk.successCount, TRUE)
           /\ ret' = WorkerReturn([wk EXCEPT !.stopped = TRUE],
                                  wk.successCount, TRUE)
           /\ UNCHANGED objects
       ELSE IF wk.dryRun THEN
           /\ wk' = Continue([wk EXCEPT !.successCount = @ + 1])
           /\ ret' = ContinueReturn([wk EXCEPT !.successCount = @ + 1])
           /\ UNCHANGED objects
       ELSE IF s3OK THEN
           /\ objects' = { k \in objects \ { file.s3Key } :
                             \E r \in files : r.s3Key = k }
           /\ wk' = [wk EXCEPT !.pc = "db", !.s3Deleted = @ \cup { file.id }]
           /\ ret' = NoReturn
       ELSE
           /\ wk' = Continue([wk EXCEPT !.lastError = TRUE,
                                        !.s3Failed = @ \cup { file.id }])
           /\ ret' = ContinueReturn([wk EXCEPT !.lastError = TRUE,
                                               !.s3Failed = @ \cup { file.id }])
           /\ UNCHANGED objects
    /\ UNCHANGED << limiterVars, bandwidthVars >>
    /\ UNCHANGED << maxFileSizeTest, maxFileSizeLive, files, now, nextId,
                    idLimit, up, del, cancelled >>

\* One file of the loop: the cancellation check, the dry run, the S3 delete.
\* s3Deleted and s3Failed are history: the files of this scan whose S3 delete
\* returned success, and those whose S3 delete returned an error; stopped
\* tells that the scan ended at its cancellation check.
CleanupObject(s3OK) ==
    /\ wk.pc = "loop"
    /\ LET file == wk.list[wk.idx] IN
       IF cancelled THEN
           /\ wk' = EndScan([wk EXCEPT !.stopped = TRUE], wk.successCount, TRUE)
           /\ ret' = WorkerReturn([wk EXCEPT !.stopped = TRUE],
                                  wk.successCount, TRUE)
           /\ UNCHANGED objects
       ELSE IF wk.dryRun THEN
           /\ wk' = Continue([wk EXCEPT !.successCount = @ + 1])
           /\ ret' = ContinueReturn([wk EXCEPT !.successCount = @ + 1])
           /\ UNCHANGED objects
       ELSE IF s3OK THEN
           /\ objects' = objects \ { file.s3Key }
           /\ wk' = [wk EXCEPT !.pc = "db", !.s3Deleted = @ \cup { file.id }]
           /\ ret' = NoReturn
       ELSE
           /\ wk' = Continue([wk EXCEPT !.lastError = TRUE,
                                        !.s3Failed = @ \cup { file.id }])
           /\ ret' = ContinueReturn([wk EXCEPT !.lastError = TRUE,
                                               !.s3Failed = @ \cup { file.id }])
           /\ UNCHANGED objects
    /\ UNCHANGED << limiterVars, bandwidthVars >>
    /\ UNCHANGED << maxFileSizeTest, maxFileSizeLive, files, now, nextId,
                    idLimit, up, del, cancelled >>

\* fileStore.PermanentlyDelete after a successful S3 delete: a failed
\* statement, a cancelled context or no row affected is an error. dbDeleted
\* and dbFailed are history: the files of this scan it succeeded and failed
\* for.
CleanupPermanentlyDelete(dbOK) ==
    /\ wk.pc = "db"
    /\ LET file == wk.list[wk.idx] IN
       IF dbOK /\ ~cancelled /\ (\E r \in files : r.id = file.id)
       THEN /\ files' = PermanentlyDelete(file.id)
            /\ wk' = Continue([wk EXCEPT !.successCount = @ + 1,
                                         !.dbDeleted = @ \cup { file.id }])
            /\ ret' = ContinueReturn([wk EXCEPT !.successCount = @ + 1,
                                                !.dbDeleted = @ \cup { file.id }])
       ELSE /\ wk' = Continue([wk EXCEPT !.lastError = TRUE,
                                         !.dbFailed = @ \cup { file.id }])
            /\ ret' = ContinueReturn([wk EXCEPT !.lastError = TRUE,
                                                !.dbFailed = @ \cup { file.id }])
            /\ UNCHANGED files
    /\ UNCHANGED << limiterVars, bandwidthVars >>
    /\ UNCHANGED << maxFileSizeTest, maxFileSizeLive, objects, now, nextId,
                    idLimit, up, del, cancelled >>

(***************************************************************************)
(* Time.                                                                   *)
(***************************************************************************)
\* The clock is counted in days and every call lasts less than a day (the
\* requests and the worker run under timeouts): days pass between calls.
Quiescent ==
    /\ \A u \in Uploaders : up[u].pc = "idle"
    /\ del.pc = "idle"
    /\ wk.pc = "idle"

Tick(d) ==
    /\ Quiescent
    /\ now + d <= MaxClock
    /\ now' = now + d
    /\ UNCHANGED << limiterVars, bandwidthVars >>
    /\ UNCHANGED << maxFileSizeTest, maxFileSizeLive, files, objects, nextId,
                    idLimit, up, del, wk, cancelled >>
    /\ ret' = NoReturn

(***************************************************************************)
(* ratelimit.Limiter: token buckets per API key and per IP address.        *)
(***************************************************************************)
Min(a, b) == IF a <= b THEN a ELSE b
Max(a, b) == IF a >= b THEN a ELSE b

NoBucket == [ exists |-> FALSE ]
NoBatch == [ seen |-> FALSE ]
NoHolder == 0
IdleCall == [ pc |-> "idle" ]

\* rate.NewLimiter(rate.Limit(limit/window), limit). The bucket starts full.
\* tokens is kept multiplied by the window, so that the refill of one tick,
\* limit/window tokens, is the integer limit.
NewLimiter(limit, window) ==
    [ burst |-> limit, per |-> window, tokens |-> limit * window, last |-> clock ]

\* Variant: the bucket is not refilled.
AdvanceWithoutRefill(lim, t) == lim.tokens

\* The tokens of a rate.Limiter at time t: the refill since last, capped at
\* the burst.
Advance(lim, t) ==
    Min(lim.burst * lim.per, lim.tokens + (t - lim.last) * lim.burst)

\* The whole tokens a rate.Limiter holds at time t.
Tokens(lim, t) == Advance(lim, t) \div lim.per

\* rate.Limiter.Allow at time t: one token is taken when there is one.
LimiterAllow(lim, t) ==
    IF Advance(lim, t) >= lim.per
    THEN [ ok |-> TRUE,
           lim |-> [lim EXCEPT !.tokens = Advance(lim, t) - lim.per, !.last = t] ]
    ELSE [ ok |-> FALSE, lim |-> lim ]

getRateForPlan(plan) ==
    CASE plan = "test" -> RateTest
      [] plan = "starter" -> RateStarter
      [] plan = "pro" -> RatePro
      [] OTHER -> RateTest

\* Variant: the bucket of an address is created one token short.
createIPBucketOneShort(limit, window) ==
    [ exists |-> TRUE, limiter |-> NewLimiter(limit - 1, window), count |-> 0,
      windowStart |-> clock, lastAccess |-> clock, lastAllowed |-> TRUE,
      granted |-> << >> ]

\* bucketInfo for an address; lastAllowed and granted are history: the
\* outcome of the last call on the bucket and the times of its allowed calls.
createIPBucket(limit, window) ==
    [ exists |-> TRUE, limiter |-> NewLimiter(limit, window), count |-> 0,
      windowStart |-> clock, lastAccess |-> clock, lastAllowed |-> TRUE,
      granted |-> << >> ]

createBucket(plan) ==
    [ exists |-> TRUE, limiter |-> NewLimiter(getRateForPlan(plan), Hour),
      count |-> 0, windowStart |-> clock, lastAccess |-> clock,
      lastAllowed |-> TRUE, granted |-> << >> ]

\* The bucket map a call works on.
BucketOf(c) ==
    IF call[c].op = "Allow" THEN limiters[call[c].key] ELSE ipLimiters[call[c].key]

\* Limiter.Allow, up to l.mu.Lock(): the limit of the plan is looked up.
Allow(c, apiKey, plan) ==
    /\ call[c].pc = "idle"
    /\ call' = [call EXCEPT ![c] =
           [ pc |-> "lock", op |-> "Allow", key |-> apiKey, plan |-> plan,
             limit |-> getRateForPlan(plan), window |-> Hour, exists |-> FALSE ]]
    /\ ncalls' = ncalls + 1
    /\ ret' = NoReturn
    /\ UNCHANGED << limiters, ipLimiters, mu, clock, batch >>
    /\ UNCHANGED << storeVars, bandwidthVars >>

\* Limiter.AllowIP, up to l.mu.Lock().
AllowIP(c, ipAddress, limit, window) ==
    /\ call[c].pc = "idle"
    /\ call' = [call EXCEPT ![c] =
           [ pc |-> "lock", op |-> "AllowIP", key |-> ipAddress, plan |-> "",
             limit |-> limit, window |-> window, exists |-> FALSE ]]
    /\ ncalls' = ncalls + 1
    /\ ret' = NoReturn
    /\ UNCHANGED << limiters, ipLimiters, mu, clock, batch >>
    /\ UNCHANGED << storeVars, bandwidthVars >>

\* Where a call is after Allow has returned: done, or back in the
\* middleware that made it, with the values returned.
AfterAllow(me, allowed, resetAt) ==
    IF "req" \in DOMAIN me
    THEN [ pc |-> "gate", key |-> me.key, req |-> me.req, allowed |-> allowed,
           limit |-> me.limit, resetAt |-> resetAt ]
    ELSE IdleCall

\* Variant: the mutex is not taken.
CanLockAlways(c) == TRUE

\* sync.RWMutex: Lock() returns when no other caller holds the mutex.
CanLock(c) == mu = NoHolder

\* l.mu.Lock()
Lock(c) ==
    /\ call[c].pc = "lock"
    /\ CanLock(c)
    /\ mu' = c
    /\ call' = [call EXCEPT ![c].pc = "lookup"]
    /\ ret' = NoReturn
    /\ UNCHANGED << limiters, ipLimiters, clock, batch, ncalls >>
    /\ UNCHANGED << storeVars, bandwidthVars >>

\* bucket, exists := l.limiters[apiKey] (l.ipLimiters[ipAddress])
Lookup(c) ==
    /\ call[c].pc = "lookup"
    /\ call' = [call EXCEPT ![c].pc = "take", ![c].exists = BucketOf(c).exists]
    /\ ret' = NoReturn
    /\ UNCHANGED << limiters, ipLimiters, mu, clock, batch, ncalls >>
    /\ UNCHANGED << storeVars, bandwidthVars >>

\* History: the tokens the key's bucket held when the first call of the
\* current instant reached it, the calls that have returned since, and how
\* many of them were allowed.
NoteCall(key, held, allowed) ==
    LET b == IF batch[key].seen THEN batch[key]
             ELSE [ seen |-> TRUE, fresh |-> FALSE, k |-> held, n |-> 0, a |-> 0 ]
    IN [b EXCEPT !.n = @ + 1, !.a = @ + (IF allowed THEN 1 ELSE 0)]

\* Variant: the window is reset only when more than a window has passed.
ResetWindowAfter(b, window) ==
    IF clock - b.windowStart > window
    THEN [b EXCEPT !.count = 0, !.windowStart = clock]
    ELSE b

\* if now.Sub(bucket.windowStart) >= window: a new reporting window.
ResetWindow(b, window) ==
    IF clock - b.windowStart >= window
    THEN [b EXCEPT !.count = 0, !.windowStart = clock]
    ELSE b

\* Variant: remaining is not clamped at 0.
RemainingUnclamped(limit, count) == limit - count

\* remaining := limit - bucket.count; if remaining < 0 { remaining = 0 }
Remaining(limit, count) == Max(0, limit - count)

\* Variant: the addresses share one bucket.
TakeFromSharedBucket(c) ==
    /\ call[c].pc = "take"
    /\ LET me == call[c]
           created == IF me.op = "Allow" THEN createBucket(me.plan)
                      ELSE createIPBucket(me.limit, me.window)
           b0 == IF me.exists THEN BucketOf(c) ELSE created
           b1 == ResetWindow(b0, me.window)
           res == LimiterAllow(b1.limiter, clock)
           b2 == [b1 EXCEPT !.lastAccess = clock,
                            !.lastAllowed = res.ok,
                            !.limiter = res.lim,
                            !.count = IF res.ok THEN @ + 1 ELSE @,
                            !.granted = IF res.ok THEN Append(@, clock) ELSE @]
           note == NoteCall(me.key, Tokens(b0.limiter, clock), res.ok)
       IN /\ IF me.op = "Allow"
             THEN limiters' = [limiters EXCEPT ![me.key] = b2] /\ UNCHANGED ipLimiters
             ELSE ipLimiters' = [ a \in IPAddresses |-> b2 ] /\ UNCHANGED limiters
          /\ batch' = [batch EXCEPT ![me.key] =
                 IF batch[me.key].seen THEN note
                 ELSE [note EXCEPT !.fresh = ~me.exists]]
          /\ ret' = [ op |-> me.op, by |-> c, key |-> me.key,
                      allowed |-> res.ok, limit |-> me.limit,
                      remaining |-> Remaining(me.limit, b2.count),
                      resetAt |-> b2.windowStart + me.window,
                      window |-> me.window,
                      prev |-> [ exists |-> me.exists, at |-> b0.lastAccess,
                                 allowed |-> b0.lastAllowed ],
                      nth |-> batch'[me.key].n, held |-> batch'[me.key].k,
                      fresh |-> batch'[me.key].fresh ]
    /\ mu' = NoHolder
    /\ call' = [call EXCEPT ![c] = IdleCall]
    /\ UNCHANGED << clock, ncalls >>
    /\ UNCHANGED << storeVars, bandwidthVars >>

\* The rest of Allow and AllowIP, under the mutex: the bucket is created when
\* the key has none, the reporting window is reset when it is over, a token
\* is taken, and the deferred Unlock runs. The return value carries, as
\* history, the window of the call and the time and the outcome of the
\* previous call on the bucket.
Take(c) ==
    /\ call[c].pc = "take"
    /\ LET me == call[c]
           created == IF me.op = "Allow" THEN createBucket(me.plan)
                      ELSE createIPBucket(me.limit, me.window)
           b0 == IF me.exists THEN BucketOf(c) ELSE created
           b1 == ResetWindow(b0, me.window)
           res == LimiterAllow(b1.limiter, clock)
           b2 == [b1 EXCEPT !.lastAccess = clock,
                            !.lastAllowed = res.ok,
                            !.limiter = res.lim,
                            !.count = IF res.ok THEN @ + 1 ELSE @,
                            !.granted = IF res.ok THEN Append(@, clock) ELSE @]
           note == NoteCall(me.key, Tokens(b0.limiter, clock), res.ok)
       IN /\ IF me.op = "Allow"
             THEN limiters' = [limiters EXCEPT ![me.key] = b2] /\ UNCHANGED ipLimiters
             ELSE ipLimiters' = [ipLimiters EXCEPT ![me.key] = b2] /\ UNCHANGED limiters
          /\ batch' = [batch EXCEPT ![me.key] =
                 IF batch[me.key].seen THEN note
                 ELSE [note EXCEPT !.fresh = ~me.exists]]
          /\ ret' = [ op |-> me.op, by |-> c, key |-> me.key,
                      allowed |-> res.ok, limit |-> me.limit,
                      remaining |-> Remaining(me.limit, b2.count),
                      resetAt |-> b2.windowStart + me.window,
                      window |-> me.window,
                      prev |-> [ exists |-> me.exists, at |-> b0.lastAccess,
                                 allowed |-> b0.lastAllowed ],
                      nth |-> batch'[me.key].n, held |-> batch'[me.key].k,
                      fresh |-> batch'[me.key].fresh ]
    /\ mu' = NoHolder
    /\ call' = [call EXCEPT ![c] = AfterAllow(call[c], ret'.allowed, ret'.resetAt)]
    /\ UNCHANGED << clock, ncalls >>
    /\ UNCHANGED << storeVars, bandwidthVars >>

\* Time passes between the calls: a new instant begins.
TickClock ==
    /\ \A c \in Callers : call[c].pc \in { "idle", "gate" }
    /\ clock < MaxTime
    /\ clock' = clock + 1
    /\ batch' = [ k \in DOMAIN batch |-> NoBatch ]
    /\ ret' = NoReturn
    /\ UNCHANGED << limiters, ipLimiters, mu, call, ncalls >>
    /\ UNCHANGED << storeVars, bandwidthVars >>

\* Limiter.Cleanup(maxAge), under the mutex: the buckets of l.limiters whose
\* last access is more than maxAge ago are deleted.
Cleanup(maxAge) ==
    /\ mu = NoHolder
    /\ limiters' = [ k \in DOMAIN limiters |->
                       IF /\ limiters[k].exists
                          /\ clock - limiters[k].lastAccess > maxAge
                       THEN NoBucket
                       ELSE limiters[k] ]
    /\ ret' = [ op |-> "Cleanup", maxAge |-> maxAge ]
    /\ UNCHANGED << ipLimiters, mu, call, clock, batch, ncalls >>
    /\ UNCHANGED << storeVars, bandwidthVars >>

(***************************************************************************)
(* RateLimitMiddleware in front of POST /upload.                           *)
(***************************************************************************)
\* RateLimitMiddleware, up to limiter.Allow, for a request with the header
\* "Authorization: Bearer <apiKey>". When FindByAPIKey returns an error (no
\* such key, or the query failed) the request goes on to the handler.
RateLimitMiddleware(c, apiKey, size, kind, fault, dbOK) ==
    /\ call[c].pc = "idle"
    /\ up[c].pc = "idle"
    /\ LET found == IF dbOK THEN FindByAPIKey(apiKey) ELSE {} IN
       IF found = {} THEN
           /\ UploadBegin(c, apiKey, size, kind, fault)
           /\ UNCHANGED limiterVars
       ELSE LET user == CHOOSE x \in found : TRUE IN
           /\ call' = [call EXCEPT ![c] =
                  [ pc |-> "lock", op |-> "Allow", key |-> apiKey,
                    plan |-> user.plan, limit |-> getRateForPlan(user.plan),
                    window |-> Hour, exists |-> FALSE,
                    req |-> [ size |-> size, kind |-> kind, fault |-> fault ] ]]
           /\ ncalls' = ncalls + 1
           /\ ret' = NoReturn
           /\ UNCHANGED << limiters, ipLimiters, mu, clock, batch >>
           /\ UNCHANGED << storeVars, bandwidthVars >>

\* The 429 response of the middleware.
TooManyRequests(c, me) ==
    [ op |-> "RateLimitMiddleware", by |-> c, key |-> me.key, status |-> 429,
      code |-> "rate_limit_exceeded", limit |-> me.limit,
      resetAt |-> me.resetAt, retryAfter |-> Max(0, me.resetAt - clock) ]

\* Variant: the middleware calls the next handler whatever Allow returned.
RateLimitRespondAlwaysNext(c) ==
    /\ call[c].pc = "gate"
    /\ UploadBegin(c, call[c].key, call[c].req.size, call[c].req.kind,
                   call[c].req.fault)
    /\ call' = [call EXCEPT ![c] = IdleCall]
    /\ UNCHANGED << limiters, ipLimiters, mu, clock, batch, ncalls >>

\* RateLimitMiddleware after limiter.Allow has returned: the 429 response
\* with Retry-After when the call was denied, the next handler (UploadHandler
\* and its Upload call) when it was allowed.
RateLimitRespond(c) ==
    /\ call[c].pc = "gate"
    /\ IF ~call[c].allowed THEN
           /\ ret' = TooManyRequests(c, call[c])
           /\ UNCHANGED << storeVars, bandwidthVars >>
       ELSE
           UploadBegin(c, call[c].key, call[c].req.size, call[c].req.kind,
                       call[c].req.fault)
    /\ call' = [call EXCEPT ![c] = IdleCall]
    /\ UNCHANGED << limiters, ipLimiters, mu, clock, batch, ncalls >>

(***************************************************************************)
(* BandwidthService.ProcessLogFiles: the CloudFront logs of one day are    *)
(* aggregated per account and upserted into bandwidth_stats.               *)
(***************************************************************************)
\* A log line: whether it starts with "#", the number of its tab-separated
\* fields, field 3 (sc-bytes) and field 7 (cs-uri-stem). The URI is held as
\* its parts between the slashes; a file name part is the text before its
\* last dot, the length of that text and whether there is a dot.
FileName(id) == [ ulid |-> id, len |-> 26, dot |-> TRUE ]
Hit(scBytes, id) ==
    [ comment |-> FALSE, fields |-> 15, scBytes |-> scBytes,
      uri |-> << "i", FileName(id) >> ]
CommentLine == [Hit("5", 1) EXCEPT !.comment = TRUE]
ShortLine == [Hit("5", 1) EXCEPT !.fields = 14]
BadURILine == [Hit("5", 1) EXCEPT !.uri = << "x", FileName(1) >>]

\* The objects the log bucket may hold: the key (the log prefix, the day and
\* the sequence number in the file name) and the lines.
LogObjects ==
    { [ key |-> [ prefix |-> "cf", date |-> "d1", n |-> 1 ],
        lines |-> << Hit("5", 1), CommentLine, Hit("7", 2) >> ],
      [ key |-> [ prefix |-> "cf", date |-> "d1", n |-> 2 ],
        lines |-> << Hit("7", 1), ShortLine, Hit("5", 3) >> ],
      [ key |-> [ prefix |-> "cf", date |-> "d2", n |-> 1 ],
        lines |-> << Hit("x", 1), BadURILine, Hit("5", 2) >> ] }

\* strconv.ParseInt(scBytesStr, 10, 64)
ParseInt(str) ==
    CASE str = "5" -> [ ok |-> TRUE, value |-> 5 ]
      [] str = "7" -> [ ok |-> TRUE, value |-> 7 ]
      [] OTHER -> [ ok |-> FALSE, value |-> 0 ]

\* extractULIDFromURI: /i/<ulid>.<ext> with a ULID of 26 characters.
extractULIDFromURI(uri) ==
    IF Len(uri) < 2 THEN [ ok |-> FALSE, ulid |-> NULL ]
    ELSE IF uri[1] # "i" THEN [ ok |-> FALSE, ulid |-> NULL ]
    ELSE IF ~uri[2].dot THEN [ ok |-> FALSE, ulid |-> NULL ]
    ELSE IF uri[2].len # 26 THEN [ ok |-> FALSE, ulid |-> NULL ]
    ELSE [ ok |-> TRUE, ulid |-> uri[2].ulid ]

\* strings.Contains(key, dateStr) over the objects under the log prefix, in
\* the order of the listing (by key).
RECURSIVE InKeyOrder(_)
InKeyOrder(S) ==
    IF S = {} THEN << >>
    ELSE LET m == CHOOSE x \in S : \A y \in S : x.key.n <= y.key.n
         IN << m >> \o InKeyOrder(S \ {m})

listLogFiles(date) ==
    InKeyOrder({ o \in logBucket : o.key.prefix = date \/ o.key.date = date })

\* Variant: a line replaces the totals of its account instead of adding to
\* them.
processLogLineReplacing(line, userBandwidth) ==
    LET bytesServed == ParseInt(line.scBytes)
        ulid == extractULIDFromURI(line.uri)
        found == IF ulid.ok THEN FindByID(ulid.ulid) ELSE {}
    IN IF line.fields < 15 \/ ~bytesServed.ok \/ ~ulid.ok \/ found = {}
       THEN userBandwidth
       ELSE LET userID == (CHOOSE r \in found : TRUE).user
            IN [ u \in DOMAIN userBandwidth \cup { userID } |->
                   IF u = userID
                   THEN [ bytesServed |-> bytesServed.value, requestCount |-> 1 ]
                   ELSE userBandwidth[u] ]

\* processLogLine: the aggregation after the line (unchanged when the line
\* is skipped).
processLogLine(line, userBandwidth) ==
    LET bytesServed == ParseInt(line.scBytes)
        ulid == extractULIDFromURI(line.uri)
        found == IF ulid.ok THEN FindByID(ulid.ulid) ELSE {}
    IN IF line.fields < 15 \/ ~bytesServed.ok \/ ~ulid.ok \/ found = {}
       THEN userBandwidth
       ELSE LET userID == (CHOOSE r \in found : TRUE).user
                old == IF userID \in DOMAIN userBandwidth
                       THEN userBandwidth[userID]
                       ELSE [ bytesServed |-> 0, requestCount |-> 0 ]
            IN [ u \in DOMAIN userBandwidth \cup { userID } |->
                   IF u = userID
                   THEN [ bytesServed |-> old.bytesServed + bytesServed.value,
                          requestCount |-> old.requestCount + 1 ]
                   ELSE userBandwidth[u] ]

\* Variant: the first line that is skipped ends the scan of the file.
RECURSIVE ScanLinesUntilSkipped(_, _, _)
ScanLinesUntilSkipped(lines, n, userBandwidth) ==
    IF n = 0 THEN userBandwidth
    ELSE LET before == ScanLinesUntilSkipped(lines, n - 1, userBandwidth)
             skipped(k) == lines[k].comment
                             \/ processLogLine(lines[k], << >>) = << >>
         IN IF \E k \in 1 .. n : skipped(k) THEN before
            ELSE processLogLine(lines[n], before)

\* The scanner loop of processLogFile over the first n lines.
RECURSIVE ScanLines(_, _, _)
ScanLines(lines, n, userBandwidth) ==
    IF n = 0 THEN userBandwidth
    ELSE LET before == ScanLines(lines, n - 1, userBandwidth)
         IN IF lines[n].comment THEN before
            ELSE processLogLine(lines[n], before)

\* Variant: the conflict clause adds to the stored totals.
UpdateBandwidthAdding(userID, date, bytesServed, requestCount) ==
    LET old == { r \in bandwidthStats : r.user = userID /\ r.date = date }
        prev == IF old = {} THEN [ bytes |-> 0, requests |-> 0 ]
                ELSE CHOOSE r \in old : TRUE
    IN (bandwidthStats \ old) \cup
         { [ user |-> userID, date |-> date, bytes |-> prev.bytes + bytesServed,
             requests |-> prev.requests + requestCount ] }

\* Variant: the upsert replaces every record of the day.
UpdateBandwidthClearingDay(userID, date, bytesServed, requestCount) ==
    { r \in bandwidthStats : r.date # date } \cup
      { [ user |-> userID, date |-> date, bytes |-> bytesServed,
          requests |-> requestCount ] }

\* INSERT ... ON CONFLICT (user_id, date) DO UPDATE SET bytes_served =
\* EXCLUDED.bytes_served, request_count = EXCLUDED.request_count
UpdateBandwidth(userID, date, bytesServed, requestCount) ==
    { r \in bandwidthStats : ~(r.user = userID /\ r.date = date) } \cup
      { [ user |-> userID, date |-> date, bytes |-> bytesServed,
          requests |-> requestCount ] }

\* The rows of one day.
DayRows(rows, date) == { r \in rows : r.date = date }

\* What ProcessLogFiles returns, with the history of the call: clean when
\* no listing, fetch or upsert failed, the log files it went through (for
\* each, whether processLogFile returned nil and the lines its scanner
\* yielded), the aggregation it held when its loop over the log files
\* ended, the upserts it made (the account and whether the statement
\* succeeded), and the call that returned before it.
ProcessReturn(date, count, err, clean, reads, totals, upserts) ==
    [ op |-> "ProcessLogFiles", date |-> date, count |-> count, err |-> err,
      clean |-> clean, reads |-> reads, totals |-> totals,
      upserts |-> upserts, prev |-> lastRun ]

\* History of a returned call: its day, whether it was clean, the metadata
\* rows it started from and the day's rows it left.
NoteRun(date, clean, files0, rows) ==
    [ date |-> date, clean |-> clean, files |-> files0,
      rows |-> DayRows(rows, date), runs |-> lastRun.runs + 1 ]

\* Step 1: the listing. No log file of the day ends the call.
ProcessLogFiles(date, listOK) ==
    /\ bw.pc = "idle"
    /\ LET logFiles == listLogFiles(date) IN
       IF ~listOK THEN
           /\ ret' = ProcessReturn(date, 0, TRUE, FALSE, << >>, << >>, << >>)
           /\ lastRun' = NoteRun(date, FALSE, files, bandwidthStats)
           /\ UNCHANGED bw
       ELSE IF Len(logFiles) = 0 THEN
           /\ ret' = ProcessReturn(date, 0, FALSE, TRUE, << >>, << >>, << >>)
           /\ lastRun' = NoteRun(date, TRUE, files, bandwidthStats)
           /\ UNCHANGED bw
       ELSE
           /\ bw' = [ pc |-> "files", date |-> date, logFiles |-> logFiles,
                      idx |-> 1, userBandwidth |-> << >>, processedCount |-> 0,
                      clean |-> TRUE, files0 |-> files, reads |-> << >>,
                      totals |-> << >>, upserts |-> << >> ]
           /\ ret' = NoReturn
           /\ UNCHANGED lastRun
    /\ UNCHANGED << logBucket, bandwidthStats >>
    /\ UNCHANGED << storeVars, limiterVars >>

\* Step 2, one file: processLogFile. outcome is "ok", or the failure of
\* GetObject, of gzip.NewReader, or of the scanner after n lines; a failed
\* file is logged and skipped.
ProcessLogFile(outcome, n) ==
    /\ bw.pc = "files"
    /\ LET lines == bw.logFiles[bw.idx].lines
           read == CASE outcome = "ok" -> Len(lines)
                     [] outcome = "scanner" -> Min(n, Len(lines))
                     [] OTHER -> 0
           agg == ScanLines(lines, read, bw.userBandwidth)
           clean == bw.clean /\ outcome = "ok"
           reads == Append(bw.reads, [ ok |-> outcome = "ok", read |-> read ])
       IN IF bw.idx < Len(bw.logFiles) THEN
              /\ bw' = [bw EXCEPT !.idx = @ + 1, !.userBandwidth = agg,
                                  !.clean = clean, !.reads = reads]
              /\ ret' = NoReturn
              /\ UNCHANGED lastRun
          ELSE IF DOMAIN agg = {} THEN
              /\ bw' = [ pc |-> "idle" ]
              /\ ret' = ProcessReturn(bw.date, 0, FALSE, clean, reads, agg, << >>)
              /\ lastRun' = NoteRun(bw.date, clean, bw.files0, bandwidthStats)
          ELSE
              /\ bw' = [bw EXCEPT !.pc = "save", !.userBandwidth = agg,
                                  !.clean = clean, !.reads = reads,
                                  !.totals = agg]
              /\ ret' = NoReturn
              /\ UNCHANGED lastRun
    /\ UNCHANGED << logBucket, bandwidthStats >>
    /\ UNCHANGED << storeVars, limiterVars >>

\* Step 3, one account of the map (in the order the map yields them): the
\* upsert. A failed upsert is logged and not counted.
SaveBandwidth(userID, dbOK) ==
    /\ bw.pc = "save"
    /\ userID \in DOMAIN bw.userBandwidth
    /\ LET agg == bw.userBandwidth[userID]
           rest == [ u \in DOMAIN bw.userBandwidth \ { userID } |->
                       bw.userBandwidth[u] ]
           count == bw.processedCount + (IF dbOK THEN 1 ELSE 0)
           clean == bw.clean /\ dbOK
           upserts == Append(bw.upserts, [ user |-> userID, ok |-> dbOK ])
       IN /\ bandwidthStats' =
                 IF dbOK
                 THEN UpdateBandwidth(userID, bw.date, agg.bytesServed,
                                      agg.requestCount)
                 ELSE bandwidthStats
          /\ IF DOMAIN rest = {} THEN
                 /\ bw' = [ pc |-> "idle" ]
                 /\ ret' = ProcessReturn(bw.date, count, FALSE, clean, bw.reads,
                                      bw.totals, upserts)
                 /\ lastRun' = NoteRun(bw.date, clean, bw.files0, bandwidthStats')
             ELSE
                 /\ bw' = [bw EXCEPT !.userBandwidth = rest,
                                     !.processedCount = count, !.clean = clean,
                                     !.upserts = upserts]
                 /\ ret' = NoReturn
                 /\ UNCHANGED lastRun
    /\ UNCHANGED logBucket
    /\ UNCHANGED << storeVars, limiterVars >>

(***************************************************************************)
(* Spec: the upload pipeline, one request at a time.                       *)
(***************************************************************************)
InitStore ==
    /\ maxFileSizeLive = DefaultMaxFileSizeLive
    /\ files = {}
    /\ objects = {}
    /\ now = 0
    /\ nextId = 1
    /\ up = [ u \in Uploaders |-> IdleUp ]
    /\ del = [ pc |-> "idle" ]
    /\ wk = IdleWk
    /\ cancelled = FALSE
    /\ ret = NoReturn

\* NewLimiter(): no bucket, the mutex free.
InitLimiterVars ==
    /\ limiters = [ k \in APIKeys |-> NoBucket ]
    /\ ipLimiters = [ a \in IPAddresses |-> NoBucket ]
    /\ mu = NoHolder
    /\ call = [ c \in Callers |-> IdleCall ]
    /\ clock = 0
    /\ batch = [ k \in APIKeys \cup IPAddresses |-> NoBatch ]
    /\ ncalls = 0

\* No log, no bandwidth row, no call.
InitBandwidthVars ==
    /\ logBucket = {}
    /\ bandwidthStats = {}
    /\ bw = [ pc |-> "idle" ]
    /\ lastRun = [ date |-> "", runs |-> 0 ]

Init ==
    /\ InitStore
    /\ InitLimiterVars
    /\ InitBandwidthVars
    /\ maxFileSizeTest \in { loadMaxFileSizes(e) : e \in EnvMaxFileSizeTest }
    /\ idLimit = MaxFiles

Next ==
    \/ \E k \in APIKeys, s \in Sizes, t \in Kinds, f \in Faults :
          UploadCheck(1, k, s, t, f)
    \/ \E ok \in BOOLEAN : UploadPut(1, ok)
    \/ \E ok \in BOOLEAN : UploadCreate(1, ok)
    \/ \E ok \in BOOLEAN : UploadCompensate(1, ok)

Spec == Init /\ [][Next]_vars

(***************************************************************************)
(* SpecRace: concurrent uploads and deletes of one account, with           *)
(* MAX_FILE_SIZE_TEST raised to the quota.                                 *)
(***************************************************************************)
InitRace ==
    /\ InitStore
    /\ InitLimiterVars
    /\ InitBandwidthVars
    /\ maxFileSizeTest = loadMaxFileSizes("104857600")
    /\ idLimit = MaxRaceFiles

NextRace ==
    \/ \E u \in Uploaders, s \in Sizes, f \in { "none", "GetStorageUsage" } :
          UploadCheck(u, "k1", s, "jpg", f)
    \/ \E u \in Uploaders, ok \in BOOLEAN : UploadPut(u, ok)
    \/ \E u \in Uploaders, ok \in BOOLEAN : UploadCreate(u, ok)
    \/ \E u \in Uploaders, ok \in BOOLEAN : UploadCompensate(u, ok)
    \/ \E f \in 1 .. idLimit, ok \in BOOLEAN : DeleteFind(f, "u1", ok)
    \/ \E ok \in BOOLEAN : DeleteSoft(ok)

SpecRace == InitRace /\ [][NextRace]_vars

(***************************************************************************)
(* SpecLifecycle: uploads of both accounts, deletes of the test account,   *)
(* the clock and the cleanup worker. The deletes of both accounts are in   *)
(* SpecDelete.                                                             *)
(***************************************************************************)
InitLifecycle ==
    /\ InitStore
    /\ InitLimiterVars
    /\ InitBandwidthVars
    /\ maxFileSizeTest = loadMaxFileSizes("")
    /\ idLimit = MaxLifecycleFiles

NextLifecycle ==
    \/ \E k \in { "k1", "k2" } : UploadCheck(1, k, 10, "jpg", "none")
    \/ \E ok \in BOOLEAN : UploadPut(1, ok)
    \/ \E ok \in BOOLEAN : UploadCreate(1, ok)
    \/ \E ok \in BOOLEAN : UploadCompensate(1, ok)
    \/ \E f \in 1 .. idLimit, ok \in BOOLEAN : DeleteFind(f, "u1", ok)
    \/ \E ok \in BOOLEAN : DeleteSoft(ok)
    \/ \E dry \in BOOLEAN : WorkerStart(dry)
    \/ Cancel
    \/ \E ok \in BOOLEAN : CleanupFind(ok)
    \/ \E ok \in BOOLEAN : CleanupObject(ok)
    \/ \E ok \in BOOLEAN : CleanupPermanentlyDelete(ok)
    \/ \E d \in TickSteps : Tick(d)

SpecLifecycle == InitLifecycle /\ [][NextLifecycle]_vars

(***************************************************************************)
(* SpecDelete: uploads and deletes of the two accounts, one request of     *)
(* each kind at a time.                                                    *)
(***************************************************************************)
InitDelete ==
    /\ InitStore
    /\ InitLimiterVars
    /\ InitBandwidthVars
    /\ maxFileSizeTest = loadMaxFileSizes("")
    /\ idLimit = MaxDeleteFiles

NextDelete ==
    \/ \E k \in APIKeys : UploadCheck(1, k, 10, "jpg", "none")
    \/ \E ok \in BOOLEAN : UploadPut(1, ok)
    \/ \E ok \in BOOLEAN : UploadCreate(1, ok)
    \/ \E ok \in BOOLEAN : UploadCompensate(1, ok)
    \/ \E f \in 1 .. idLimit, uid \in UserIDs, ok \in BOOLEAN : DeleteFind(f, uid, ok)
    \/ \E ok \in BOOLEAN : DeleteSoft(ok)

SpecDelete == InitDelete /\ [][NextDelete]_vars

(***************************************************************************)
(* SpecWorker: passes of the cleanup worker, dry and live, over a bucket   *)
(* of files of several ages, with no request in flight.                    *)
(***************************************************************************)
\* The row and the object of a committed upload of 10 MB.
UploadedFile(id, userID, uploadedAt, deletedAt) ==
    [ id |-> id, user |-> userID, size |-> 10,
      s3Key |-> generateFileKeys(id, "jpg").s3Key,
      uploadedAt |-> uploadedAt, deletedAt |-> deletedAt ]

\* The accounts upload in turn: the test account first.
OwnerOf(id) == IF id % 2 = 1 THEN "u1" ELSE "u2"

\* The stores after MaxWorkerFiles uploads on day 0 and day 31, in the order
\* of their identifiers, some of those of day 0 deleted by their owners on
\* day 0 or day 8. It is day 31: the uploads of day 0 are past the trial
\* retention and those of day 31 are not, the deletions of day 0 are past
\* the purge retention and those of day 8 are not.
InitWorker ==
    /\ InitLimiterVars
    /\ InitBandwidthVars
    /\ maxFileSizeTest = loadMaxFileSizes("")
    /\ maxFileSizeLive = DefaultMaxFileSizeLive
    /\ idLimit = MaxWorkerFiles
    /\ nextId = MaxWorkerFiles + 1
    /\ now = 31
    /\ \E uploadedAt \in [ 1 .. MaxWorkerFiles -> { 0, 31 } ],
       deletedAt \in [ 1 .. MaxWorkerFiles -> { NULL, 0, 8 } ] :
          /\ \A i, j \in 1 .. MaxWorkerFiles :
                 i <= j => uploadedAt[i] <= uploadedAt[j]
          /\ \A i \in 1 .. MaxWorkerFiles :
                 deletedAt[i] # NULL => uploadedAt[i] <= deletedAt[i]
          /\ files = { UploadedFile(i, OwnerOf(i), uploadedAt[i], deletedAt[i])
                         : i \in 1 .. MaxWorkerFiles }
    /\ objects = { r.s3Key : r \in files }
    /\ up = [ u \in Uploaders |-> IdleUp ]
    /\ del = [ pc |-> "idle" ]
    /\ wk = IdleWk
    /\ cancelled = FALSE
    /\ ret = NoReturn

NextWorker ==
    \/ \E dry \in BOOLEAN : WorkerStart(dry)
    \/ Cancel
    \/ \E ok \in BOOLEAN : CleanupFind(ok)
    \/ \E ok \in BOOLEAN : CleanupObject(ok)
    \/ \E ok \in BOOLEAN : CleanupPermanentlyDelete(ok)
    \/ \E d \in { 8 } : Tick(d)

SpecWorker == InitWorker /\ [][NextWorker]_vars

(***************************************************************************)
(* SpecLimiter: concurrent calls of the limiter, with time passing between *)
(* the instants.                                                           *)
(***************************************************************************)
InitLimiter ==
    /\ InitStore
    /\ InitLimiterVars
    /\ InitBandwidthVars
    /\ maxFileSizeTest = loadMaxFileSizes("")
    /\ idLimit = 0

NextLimiter ==
    \/ \E c \in Callers : ncalls < MaxCalls /\ Allow(c, "k1", "test")
    \/ \E c \in Callers, a \in { "a1" }, l \in IPLimits :
          ncalls < MaxCalls /\ AllowIP(c, a, l, Hour)
    \/ \E c \in Callers : Lock(c)
    \/ \E c \in Callers : Lookup(c)
    \/ \E c \in Callers : Take(c)
    \/ TickClock

SpecLimiter == InitLimiter /\ [][NextLimiter]_vars

(***************************************************************************)
(* SpecGate: requests to POST /upload through RateLimitMiddleware, with    *)
(* time passing, after the test account has used all but two of the        *)
(* requests of its hour.                                                   *)
(***************************************************************************)
\* The bucket of a key of a plan after n calls in the instant of its
\* creation, n up to the rate of the plan: all were allowed.
UsedBucket(plan, n) ==
    LET b == createBucket(plan) IN
    [b EXCEPT !.count = n,
              !.limiter.tokens = @ - n * b.limiter.per,
              !.granted = [ i \in 1 .. n |-> clock ]]

InitGate ==
    /\ InitStore
    /\ mu = NoHolder
    /\ call = [ c \in Callers |-> IdleCall ]
    /\ clock = 0
    /\ batch = [ k \in APIKeys \cup IPAddresses |-> NoBatch ]
    /\ ncalls = 0
    /\ ipLimiters = [ a \in IPAddresses |-> NoBucket ]
    /\ limiters = [ k \in APIKeys |->
                      IF k = "k1"
                      THEN UsedBucket("test", getRateForPlan("test") - 2)
                      ELSE NoBucket ]
    /\ InitBandwidthVars
    /\ maxFileSizeTest = loadMaxFileSizes("")
    /\ idLimit = MaxGateFiles

NextGate ==
    \/ \E c \in Requesters, k \in APIKeys, s \in Sizes, ok \in BOOLEAN :
          ncalls < MaxGateCalls /\ RateLimitMiddleware(c, k, s, "jpg", "none", ok)
    \/ \E c \in Requesters : Lock(c)
    \/ \E c \in Requesters : Lookup(c)
    \/ \E c \in Requesters : Take(c)
    \/ \E c \in Requesters : RateLimitRespond(c)
    \/ \E c \in Requesters, ok \in BOOLEAN : UploadPut(c, ok)
    \/ \E c \in Requesters, ok \in BOOLEAN : UploadCreate(c, ok)
    \/ \E c \in Requesters, ok \in BOOLEAN : UploadCompensate(c, ok)
    \/ TickClock

SpecGate == InitGate /\ [][NextGate]_vars

(***************************************************************************)
(* SpecSweep: calls of the limiter for an API key and for an address, time *)
(* passing, and the sweep of the idle buckets.                             *)
(***************************************************************************)
NextSweep ==
    \/ \E c \in Sweepers : ncalls < MaxSweepCalls /\ Allow(c, "k1", "test")
    \/ \E c \in Sweepers, l \in IPLimits :
          ncalls < MaxSweepCalls /\ AllowIP(c, "a1", l, Hour)
    \/ \E c \in Sweepers : Lock(c)
    \/ \E c \in Sweepers : Lookup(c)
    \/ \E c \in Sweepers : Take(c)
    \/ TickClock
    \/ \E maxAge \in MaxAges : Cleanup(maxAge)

SpecSweep == InitLimiter /\ [][NextSweep]_vars

(***************************************************************************)
(* SpecOrphan: uploads of the test account with every outcome, time        *)
(* passing, and passes of the cleanup worker that are run again and again: *)
(* a live pass is started, and each of its steps succeeds, infinitely      *)
(* often; an upload that has begun runs to its end, and days go by.        *)
(***************************************************************************)
InitOrphan ==
    /\ InitStore
    /\ InitLimiterVars
    /\ InitBandwidthVars
    /\ maxFileSizeTest = loadMaxFileSizes("")
    /\ idLimit = MaxOrphanFiles

NextOrphan ==
    \/ UploadCheck(1, "k1", 10, "jpg", "none")
    \/ \E ok \in BOOLEAN : UploadPut(1, ok)
    \/ \E ok \in BOOLEAN : UploadCreate(1, ok)
    \/ \E ok \in BOOLEAN : UploadCompensate(1, ok)
    \/ \E dry \in BOOLEAN : WorkerStart(dry)
    \/ Cancel
    \/ \E ok \in BOOLEAN : CleanupFind(ok)
    \/ \E ok \in BOOLEAN : CleanupObject(ok)
    \/ \E ok \in BOOLEAN : CleanupPermanentlyDelete(ok)
    \/ \E d \in { 8 } : Tick(d)

SpecOrphan ==
    /\ InitOrphan /\ [][NextOrphan]_vars
    /\ SF_vars(Tick(8))
    /\ WF_vars(\E ok \in BOOLEAN : UploadPut(1, ok))
    /\ WF_vars(\E ok \in BOOLEAN : UploadCreate(1, ok))
    /\ WF_vars(\E ok \in BOOLEAN : UploadCompensate(1, ok))
    /\ SF_vars(WorkerStart(FALSE))
    /\ SF_vars(CleanupFind(TRUE))
    /\ SF_vars(CleanupObject(TRUE))
    /\ SF_vars(CleanupPermanentlyDelete(TRUE))

(***************************************************************************)
(* SpecWindows: one caller of AllowIP on one address, with windows of      *)
(* several lengths and time passing.                                       *)
(***************************************************************************)
NextWindows ==
    \/ \E l \in IPLimits, w \in Windows :
          ncalls < MaxWindowCalls /\ AllowIP(1, "a1", l, w)
    \/ Lock(1)
    \/ Lookup(1)
    \/ Take(1)
    \/ TickClock

SpecWindows == InitLimiter /\ [][NextWindows]_vars

(***************************************************************************)
(* SpecBurst: one caller, no time passing, every key called with one limit *)
(* until the calls exceed it by MaxOver.                                   *)
(***************************************************************************)
\* The calls that have returned for a key.
Returned(key) == IF batch[key].seen THEN batch[key].n ELSE 0

NextBurst ==
    \/ Returned("k1") < getRateForPlan("test") + MaxOver /\ Allow(1, "k1", "test")
    \/ \E a \in { "a1" }, l \in BurstLimits :
          /\ Returned(a) < l + MaxOver
          /\ ipLimiters[a].exists => ipLimiters[a].limiter.burst = l
          /\ AllowIP(1, a, l, Hour)
    \/ Lock(1)
    \/ Lookup(1)
    \/ Take(1)

SpecBurst == InitLimiter /\ [][NextBurst]_vars

(***************************************************************************)
(* SpecKeys: two callers and two addresses, with time passing between the  *)
(* instants.                                                               *)
(***************************************************************************)
NextKeys ==
    \/ \E c \in { 1, 2 }, a \in IPAddresses, l \in IPLimits :
          ncalls < MaxKeyCalls /\ AllowIP(c, a, l, Hour)
    \/ \E c \in { 1, 2 } : Lock(c)
    \/ \E c \in { 1, 2 } : Lookup(c)
    \/ \E c \in { 1, 2 } : Take(c)
    \/ TickClock

SpecKeys == InitLimiter /\ [][NextKeys]_vars

(***************************************************************************)
(* SpecBandwidth: bandwidth passes over a log bucket that does not change, *)
(* while the files of two accounts are being soft-deleted.                 *)
(***************************************************************************)
\* A file as an earlier upload left it.
Uploaded(id, userID) ==
    [ id |-> id, user |-> userID, size |-> 10,
      s3Key |-> generateFileKeys(id, "jpg").s3Key, uploadedAt |-> 0,
      deletedAt |-> NULL ]

InitBandwidth ==
    /\ maxFileSizeTest = loadMaxFileSizes("")
    /\ maxFileSizeLive = DefaultMaxFileSizeLive
    /\ files = { Uploaded(1, "u1"), Uploaded(2, "u2") }
    /\ objects = { r.s3Key : r \in files }
    /\ now = 0
    /\ nextId = 3
    /\ idLimit = 2
    /\ up = [ u \in Uploaders |-> IdleUp ]
    /\ del = [ pc |-> "idle" ]
    /\ wk = IdleWk
    /\ cancelled = FALSE
    /\ ret = NoReturn
    /\ InitLimiterVars
    /\ logBucket \in SUBSET LogObjects
    /\ bandwidthStats = {}
    /\ bw = [ pc |-> "idle" ]
    /\ lastRun = [ date |-> "", runs |-> 0 ]

NextBandwidth ==
    \/ \E d \in Dates, ok \in BOOLEAN :
          lastRun.runs < MaxRuns /\ ProcessLogFiles(d, ok)
    \/ \E o \in { "ok", "get", "gzip", "scanner" }, n \in 0 .. 2 :
          ProcessLogFile(o, n)
    \/ \E u \in UserIDs, ok \in BOOLEAN : SaveBandwidth(u, ok)
    \/ \E f \in 1 .. idLimit, uid \in UserIDs : DeleteFind(f, uid, TRUE)
    \/ \E ok \in BOOLEAN : DeleteSoft(ok)

SpecBandwidth == InitBandwidth /\ [][NextBandwidth]_vars

(***************************************************************************)
(* Properties of the stores (Spec, SpecRace, SpecLifecycle).               *)
(***************************************************************************)
\* The files whose row has no object in the bucket.
Stranded(rows, objs) == { r.id : r \in { x \in rows : x.s3Key \notin objs } }

\* C1, as stated: every metadata row always has its object in the object
\* store (the only inconsistency is an object without a row).
C1_EveryRowHasObject == \A r \in files : r.s3Key \in objects

\* C1, amended: a metadata row loses its object only by the cleanup worker's
\* own successful S3 delete of that row's key (the row then stays until the
\* metadata delete that follows, for good when that delete fails); uploads
\* and the public delete never produce a row without an object.
C1_OnlyWorkerStrands ==
    [][ \A id \in Stranded(files', objects') :
           \/ id \in Stranded(files, objects)
           \/ /\ \E r \in files : r.id = id /\ r.s3Key = wk.list[wk.idx].s3Key
              /\ wk.pc = "loop" /\ wk'.pc = "db"
              /\ wk.list[wk.idx].id = id ]_vars

\* C1: the worker pass has ended and a row whose object it deleted remains.
C1_Witness ==
    /\ wk.pc = "idle"
    /\ ret.op = "runWorker"
    /\ Stranded(files, objects) # {}

\* C3, as stated: when an upload commits, the bytes of the account's
\* non-deleted files, the new file included, do not exceed the quota.
C3_CommitWithinQuota ==
    (ret.op = "Upload" /\ ret.result = "OK")
        => GetStorageUsage(ret.file.user) <= ret.quota

\* C3, amended: when an upload commits and no other upload of the account
\* has committed since its quota check, the bytes of the account's
\* non-deleted files, the new file included, do not exceed the quota.
C3_CommitWithinQuotaAlone ==
    (ret.op = "Upload" /\ ret.result = "OK" /\ ret.others = << >>)
        => GetStorageUsage(ret.file.user) <= ret.quota

\* C3: an upload has committed alone and left the account at 90 of 100 MB.
C3_Witness ==
    /\ ret.op = "Upload" /\ ret.result = "OK" /\ ret.others = << >>
    /\ GetStorageUsage(ret.file.user) = 90

\* C4: when two uploads of one account both pass the quota check before
\* either commits, the total after the second commit exceeds the quota by at
\* most the size of the file the other upload committed.
C4_OvershootBounded ==
    (ret.op = "Upload" /\ ret.result = "OK" /\ Len(ret.others) = 1)
        => GetStorageUsage(ret.file.user) <= ret.quota + ret.others[1]

\* C4: both uploads committed and the account is over its quota.
C4_Witness ==
    /\ ret.op = "Upload" /\ ret.result = "OK" /\ Len(ret.others) = 1
    /\ GetStorageUsage(ret.file.user) > ret.quota

\* The steps of a DeleteFile call.
DeleteFileStep == del' # del \/ (ret'.op = "DeleteFile" /\ ret' # ret)

\* C5: a DeleteFile call removes no metadata row and no object; all it
\* changes is the deleted timestamp of the file it names, from unset to now.
C5_DeleteFileOnlyMarks ==
    [][ DeleteFileStep =>
          /\ objects' = objects
          /\ { r.id : r \in files' } = { r.id : r \in files }
          /\ \A r \in files :
                \/ r \in files'
                \/ /\ r.id = del.id /\ r.deletedAt = NULL
                   /\ [r EXCEPT !.deletedAt = now] \in files' ]_vars

\* C5: DeleteFile has returned success; the row and the object are there.
C5_Witness ==
    /\ ret.op = "DeleteFile" /\ ret.result = "OK"
    /\ \E r \in files : r.deletedAt # NULL /\ r.s3Key \in objects

\* C6: the worker removes a metadata row only after the S3 delete of the
\* row's key returned success in the same scan; a row whose S3 delete
\* failed is not removed in that scan.
C6_ObjectDeletedFirst ==
    [][ \A r \in files :
           (\A r2 \in files' : r2.id # r.id) =>
               /\ wk.pc = "db"
               /\ wk.list[wk.idx].id = r.id
               /\ r.id \in wk.s3Deleted
               /\ r.id \notin wk.s3Failed
               /\ r.s3Key \notin objects ]_vars

\* C6: a live pass has hard-deleted a file, object first.
C6_Witness ==
    /\ ret.op = "runWorker" /\ ~ret.dryRun
    /\ ret.testCount + ret.softCount >= 1
    /\ files = {} /\ objects = {}

\* The error kinds of a rejected upload.
Rejections == { "InvalidCredential", "FileTooLarge", "QuotaExceeded", "UnsupportedType" }

\* C9: an upload that is rejected with InvalidCredential, FileTooLarge,
\* QuotaExceeded or UnsupportedType has written nothing to the object store
\* and nothing to the metadata store.
C9_RejectionWritesNothing ==
    [][ (ret'.op = "Upload" /\ ret'.result \in Rejections)
          => (files' = files /\ objects' = objects) ]_vars

\* C9: a rejection over stores that are not empty.
C9_Witness ==
    /\ ret.op = "Upload" /\ ret.result = "QuotaExceeded"
    /\ files # {} /\ objects # {}

\* The account of the 100 MB quota holds three 10 MB files and an upload of
\* 80 MB with its key has just returned, with no failure of the database.
C10_Scenario ==
    /\ getStorageQuotaForPlan(UserByID("u1").plan) = 100
    /\ Cardinality({ r \in files : r.user = "u1" }) = 3
    /\ \A r \in files : r.user = "u1" => (r.size = 10 /\ r.deletedAt = NULL)
    /\ ret.op = "Upload" /\ ret.apiKey = "k1" /\ ret.size = 80
    /\ ret.result # "InternalError" /\ ret.fault = "none"

\* The usage report of the account: 30 MB, 30% of the quota.
C10_Reports30 ==
    LET st == GetUsageStats(UserByID("u1")) IN
    /\ st.usedMB = 30
    /\ st.percentageUsed.num = 30 * st.percentageUsed.den

\* C10, as stated: after three 10 MB uploads to an account of 100 MB quota,
\* 30 MB (30%) are reported and a fourth upload of 80 MB is rejected with
\* QuotaExceeded.
C10_FourthIsQuotaExceeded ==
    C10_Scenario => (C10_Reports30 /\ ret.result = "QuotaExceeded")

\* C10, amended: after three 10 MB uploads to an account of 100 MB quota,
\* 30 MB (30%) are reported and a fourth upload of 80 MB is rejected: with
\* FileTooLarge when 80 MB is above the maximum file size of the key type
\* (the default for a test key), and with QuotaExceeded otherwise.
C10_FourthIsRejected ==
    C10_Scenario =>
        /\ C10_Reports30
        /\ ret.result = IF 80 > maxFileSizeTest THEN "FileTooLarge"
                        ELSE "QuotaExceeded"

\* C10: the fourth upload has been rejected by the file size limit.
C10_Witness == C10_Scenario /\ ret.result = "FileTooLarge"

(***************************************************************************)
(* Properties of the limiter (SpecLimiter, SpecBurst).                     *)
(***************************************************************************)
\* C2: of the n calls that have returned for a key within one instant (no
\* refill between them), on a bucket that held k tokens when the first of
\* them reached it, exactly min(n, k) were allowed, whatever the order in
\* which the concurrent callers got the mutex.
C2_ExactlyMinAllowed ==
    \A key \in DOMAIN batch :
        batch[key].seen => batch[key].a = Min(batch[key].n, batch[key].k)

\* C2: one token was held, a second concurrent call has been denied and a
\* third caller is still waiting for the same key.
C2_Witness ==
    /\ ret.op = "AllowIP" /\ ~ret.allowed
    /\ ret.held = 1 /\ ret.nth = 2
    /\ \E c \in Callers : call[c].pc = "lock" /\ call[c].key = ret.key

\* C8: on a key never seen before, with no time passing between the calls,
\* the n-th call is allowed exactly when n is at most the capacity: the
\* first C calls are allowed and call C+1 is denied.
C8_FirstCallsAllowed ==
    (ret.op \in { "Allow", "AllowIP" } /\ ret.fresh)
        => (ret.allowed <=> ret.nth <= ret.limit)

\* C8: call C+1 on a fresh address of capacity 3 has been denied.
C8_Witness ==
    /\ ret.op = "AllowIP" /\ ret.fresh
    /\ ret.limit = 3 /\ ret.nth = 4 /\ ~ret.allowed

(***************************************************************************)
(* Properties of the bandwidth pass (SpecBandwidth).                       *)
(***************************************************************************)
\* C7: when a pass for a day returns after an earlier pass for the same
\* day, both without a failure and over the same log files and metadata
\* rows, every record of the day has the totals the first pass left (the
\* second upsert replaces them); and there is never more than one record
\* per account and day.
C7_SecondPassSameTotals ==
    /\ \A r1, r2 \in bandwidthStats :
          (r1.user = r2.user /\ r1.date = r2.date) => r1 = r2
    /\ ( /\ ret.op = "ProcessLogFiles" /\ ret.clean
         /\ ret.prev.date = ret.date /\ ret.prev.clean
         /\ ret.prev.files = files )
       => DayRows(bandwidthStats, ret.date) = ret.prev.rows

\* C7: a second clean pass over two log files has returned and the day has
\* its records.
C7_Witness ==
    /\ ret.op = "ProcessLogFiles" /\ ret.clean /\ ret.count = 2
    /\ ret.prev.date = ret.date /\ ret.prev.clean
    /\ ret.prev.files = files
    /\ \E r \in bandwidthStats : r.date = ret.date /\ r.bytes = 12

(***************************************************************************)
(* Properties of the quota check (Spec).                                   *)
(***************************************************************************)
\* C11: an upload made with no other request in flight, which has passed
\* authentication and the file size check and met no failure of the usage
\* query or of the reading of the file, is rejected with QuotaExceeded
\* exactly when the usage of the account before the call plus the declared
\* size is above the quota of its plan.
C11_QuotaExceededExactly ==
    ( /\ ret.op = "Upload" /\ ret.fault = "none"
      /\ ret.result \notin { "InvalidCredential", "FileTooLarge" } )
    => LET user == CHOOSE x \in FindByAPIKey(ret.apiKey) : TRUE
           usage == GetStorageUsage(user.id)
           current == IF ret.result = "OK" THEN usage - ret.size ELSE usage
       IN (ret.result = "QuotaExceeded")
              <=> (current + ret.size > getStorageQuotaForPlan(user.plan))

\* C11: an upload that brought the usage exactly up to the quota has been
\* accepted.
C11_Witness ==
    /\ ret.op = "Upload" /\ ret.result = "OK" /\ ret.apiKey = "k1"
    /\ GetStorageUsage("u1") = getStorageQuotaForPlan("test")
    /\ GetStorageUsage("u1") - ret.size > 0

(***************************************************************************)
(* Properties of the compensating delete (Spec).                           *)
(***************************************************************************)
\* C12: when fileStore.Create fails after PutObject succeeded, Upload does
\* not return yet and goes on to the delete of the key it stored; the step
\* of that delete returns InternalError, removes no other key, and leaves no
\* row for the generated identifier; when the delete fails the object stays
\* in the bucket without a row.
C12_FailedCreateIsCompensated ==
    [][ /\ (up[1].pc = "create" /\ up'[1].pc # "create" /\ files' = files)
           => /\ up'[1].pc = "compensate"
              /\ up'[1].s3Key = up[1].s3Key
              /\ up[1].s3Key \in objects'
              /\ ret' = NoReturn
        /\ (up[1].pc = "compensate" /\ up'[1].pc # "compensate")
           => /\ ret'.op = "Upload" /\ ret'.result = "InternalError"
              /\ files' = files
              /\ \A r \in files' : r.id # up[1].id
              /\ \/ objects' = objects \ { up[1].s3Key }
                 \/ objects' = objects /\ up[1].s3Key \in objects'
      ]_vars

\* C12: the compensating delete of the last upload has failed: the call has
\* returned InternalError and its object is in the bucket without a row.
C12_Witness ==
    /\ ret.op = "Upload" /\ ret.result = "InternalError" /\ ret.fault = "none"
    /\ up[1].pc = "idle"
    /\ generateFileKeys(nextId - 1, "jpg").s3Key \in objects
    /\ \A r \in files : r.id # nextId - 1

(***************************************************************************)
(* Properties of the cleanup worker pass (SpecWorker).                     *)
(***************************************************************************)
\* The files a scan issued an S3 delete or a metadata delete for.
Attempted(scan) ==
    scan.s3Deleted \cup scan.s3Failed \cup scan.dbDeleted \cup scan.dbFailed

\* C13: no step of a dry-run pass changes the rows or the bucket; the pass
\* has issued no S3 delete and no metadata delete when it returns; and when
\* neither query failed and the pass was not cancelled, both scans have run
\* and each returned the number of its candidates.
C13_DryRunMutatesNothing ==
    [][ /\ (wk.pc # "idle" /\ wk.dryRun)
           => (files' = files /\ objects' = objects)
        /\ (ret'.op = "runWorker" /\ ret'.dryRun)
           => /\ ret'.test.ran /\ ret'.soft.ran
              /\ Attempted(ret'.test) = {} /\ Attempted(ret'.soft) = {}
              /\ (~ret'.testErr /\ ~ret'.softErr)
                 => /\ ret'.testCount = Len(FindExpiredTestFiles)
                    /\ ret'.softCount = Len(FindExpiredSoftDeleted)
      ]_vars

\* C13: a dry-run pass has returned without error over expired test files,
\* expired soft-deleted files and files that are neither.
C13_Witness ==
    /\ ret.op = "runWorker" /\ ret.dryRun
    /\ ~ret.testErr /\ ~ret.softErr
    /\ ret.testCount >= 1 /\ ret.softCount >= 1
    /\ Cardinality(files) > ret.testCount + ret.softCount

\* The candidates a scan found are all gone, rows and objects, and the
\* scan returned their number.
AllRemoved(scan) ==
    /\ scan.ran
    /\ scan.count = Len(scan.list)
    /\ \A i \in 1 .. Len(scan.list) :
          /\ \A r \in files : r.id # scan.list[i].id
          /\ scan.list[i].s3Key \notin objects

\* A live pass has returned with no error from either scan.
LivePassWithoutError ==
    /\ ret.op = "runWorker" /\ ~ret.dryRun
    /\ ~ret.testErr /\ ~ret.softErr

\* What C14 states of the return of a live pass without error: every
\* candidate either scan found is removed and counted, and no file that
\* remains is a candidate.
C14_AtReturn ==
    LivePassWithoutError
    => /\ AllRemoved(ret.test) /\ AllRemoved(ret.soft)
       /\ ret.testCount = ret.test.count /\ ret.softCount = ret.soft.count
       /\ Len(FindExpiredTestFiles) = 0 /\ Len(FindExpiredSoftDeleted) = 0

\* C14: a step of a live pass removes nothing but the row or the object of
\* the candidate the loop is at, and changes no row that stays; and a live
\* pass that returns without error has removed the row and the object of
\* every candidate its scans found and returns their numbers.
C14_RemovesExactlyCandidates ==
    [][ /\ files' \subseteq files /\ objects' \subseteq objects
        /\ (files' # files \/ objects' # objects)
           => /\ wk.pc \in { "loop", "db" } /\ ~wk.dryRun
              /\ \A r \in files \ files' : r.id = wk.list[wk.idx].id
              /\ objects \ objects' \subseteq { wk.list[wk.idx].s3Key }
        /\ C14_AtReturn'
      ]_vars

\* C14: a live pass has returned without error, having removed expired test
\* files and expired soft-deleted files and left other files.
C14_Witness ==
    /\ LivePassWithoutError
    /\ ret.testCount >= 1 /\ ret.softCount >= 1
    /\ files # {}
    /\ \A r \in files : r.s3Key \in objects

\* The soft-deleted rows whose deletion is at most, and more than, the purge
\* retention old.
YoungSoftDeleted ==
    { r \in files : r.deletedAt # NULL /\ r.deletedAt >= now - PurgeRetentionDays }
OldSoftDeleted ==
    { r \in files : r.deletedAt # NULL /\ r.deletedAt < now - PurgeRetentionDays }

\* C15: the purge scan selects no soft-deleted row whose deletion is not yet
\* older than the purge retention, and no step of a pass removes or changes
\* such a row; and when a live pass returns with no error from its purge
\* scan, no soft-deleted row older than the purge retention is left.
C15_PurgeOnlyAfterRetention ==
    [][ /\ \A r \in YoungSoftDeleted : r \in files'
        /\ (wk.pc = "find" /\ wk.scan = "soft" /\ wk'.pc = "loop")
           => \A i \in 1 .. Len(wk'.list) :
                 \A r \in YoungSoftDeleted : r.id # wk'.list[i].id
        /\ (ret'.op = "runWorker" /\ ~ret'.dryRun /\ ~ret'.softErr)
           => OldSoftDeleted' = {}
      ]_vars

\* C15: a live pass has returned with no error from its purge scan, having
\* removed a file whose deletion was younger than the purge retention eight
\* days before.
C15_Witness ==
    /\ ret.op = "runWorker" /\ ~ret.dryRun /\ ~ret.softErr
    /\ \E i \in 1 .. Len(ret.soft.list) :
          /\ ret.soft.list[i].deletedAt >= now - 8 - PurgeRetentionDays
          /\ ret.soft.list[i].id \in ret.soft.dbDeleted

\* The identifiers of the candidates before position idx of a list.
Before(list, idx) == { list[i].id : i \in 1 .. idx - 1 }

\* The history of the scan that has just ended, given the states before and
\* after the step that ended it.
Ended(w, w2, r2) == IF w.scan = "test" THEN w2.test ELSE r2.soft

\* C16: the loop looks at the cancellation before every file. A step of the
\* loop taken with the context cancelled changes neither store, ends the
\* scan and makes it return the cancellation error with the count reached so
\* far, which in a live pass is the number of files whose two deletes both
\* succeeded; the scan has issued no delete for the file it was at nor for
\* any later one.
C16_StopsAtCancellation ==
    [][ (wk.pc = "loop" /\ cancelled /\ wk' # wk)
        => /\ files' = files /\ objects' = objects
           /\ IF wk.scan = "test"
              THEN wk'.pc = "find" /\ wk'.scan = "soft" /\ ret' = NoReturn
              ELSE wk'.pc = "idle" /\ ret'.op = "runWorker"
           /\ LET scan == Ended(wk, wk', ret') IN
              /\ scan.stopped /\ scan.err
              /\ scan.count = wk.successCount
              /\ ~wk.dryRun => /\ scan.count = Cardinality(scan.dbDeleted)
                               /\ scan.dbDeleted \subseteq scan.s3Deleted
                               /\ \A r \in files' : r.id \notin scan.dbDeleted
              /\ Attempted(scan) \subseteq Before(wk.list, wk.idx)
      ]_vars

\* C16: the purge scan of a live pass was cancelled after it had deleted a
\* file and before it had gone through all its candidates.
C16_Witness ==
    /\ ret.op = "runWorker" /\ ~ret.dryRun
    /\ ret.soft.stopped /\ ret.softErr
    /\ ret.softCount >= 1
    /\ Len(ret.soft.list) > ret.softCount
    /\ \E i \in 1 .. Len(ret.soft.list) :
          /\ ret.soft.list[i].id \notin Attempted(ret.soft)
          /\ \E r \in files : r.id = ret.soft.list[i].id

\* What C17 states of a scan that has returned, in a live pass when dry is
\* FALSE: unless its query failed or it was cancelled it has attempted every
\* candidate; the files it deleted are gone from both stores; its count is
\* the number of files whose two deletes both succeeded; and it returned an
\* error exactly when its query failed, a delete of a file failed, or it was
\* cancelled.
ScanSound(scan, dry) ==
    /\ ~dry =>
          /\ (~scan.queryFailed /\ ~scan.stopped)
             => scan.s3Deleted \cup scan.s3Failed = Before(scan.list, Len(scan.list) + 1)
          /\ scan.dbDeleted \cup scan.dbFailed = scan.s3Deleted
          /\ scan.dbDeleted \cap scan.dbFailed = {}
          /\ scan.count = Cardinality(scan.dbDeleted)
          /\ \A i \in 1 .. Len(scan.list) :
                scan.list[i].id \in scan.dbDeleted
                => /\ \A r \in files : r.id # scan.list[i].id
                   /\ scan.list[i].s3Key \notin objects
    /\ scan.err <=> \/ scan.queryFailed
                    \/ scan.s3Failed # {} \/ scan.dbFailed # {}
                    \/ scan.stopped

\* C17: every scan that has returned, the test scan while the pass goes on
\* and both scans when the pass has returned, is as ScanSound states.
C17_FailureDoesNotStopScan ==
    /\ (wk.pc # "idle" /\ wk.test.ran) => ScanSound(wk.test, wk.dryRun)
    /\ ret.op = "runWorker"
       => /\ ScanSound(ret.test, ret.dryRun)
          /\ ScanSound(ret.soft, ret.dryRun)
          /\ ret.testCount = ret.test.count /\ ret.testErr = ret.test.err
          /\ ret.softCount = ret.soft.count /\ ret.softErr = ret.soft.err

\* C17: in a scan of a live pass that has returned, the deletion of one
\* candidate failed and a later candidate was deleted.
C17_Witness ==
    /\ ret.op = "runWorker" /\ ~ret.dryRun
    /\ \E scan \in { ret.test, ret.soft } :
          /\ scan.err /\ scan.count >= 1
          /\ \E i, j \in 1 .. Len(scan.list) :
                /\ i < j
                /\ scan.list[i].id \in scan.s3Failed \cup scan.dbFailed
                /\ scan.list[j].id \in scan.dbDeleted

(***************************************************************************)
(* Properties of the refill and of the keys of the limiter.                *)
(***************************************************************************)
\* C18: when the previous call on the bucket of a key was denied and at
\* least one window has passed since, with no call for the key in between,
\* the call is allowed and reports remaining = limit - 1.
C18_AllowedAfterWindow ==
    ( /\ ret.op \in { "Allow", "AllowIP" }
      /\ ret.prev.exists /\ ~ret.prev.allowed
      /\ clock - ret.prev.at >= ret.window )
    => (ret.allowed /\ ret.remaining = ret.limit - 1)

\* C18: a call has been allowed a full window after a denied one.
C18_Witness ==
    /\ ret.op = "AllowIP"
    /\ ret.prev.exists /\ ~ret.prev.allowed
    /\ clock - ret.prev.at >= ret.window
    /\ ret.allowed

\* C19: the bucket of a key changes only in the step in which a call for
\* that same key, in the same map, takes its token: the calls on every other
\* key, whatever their number and their outcomes, leave its tokens, its
\* count and its window start as they were.
C19_KeysAreIndependent ==
    [][ /\ \A a \in IPAddresses :
              ipLimiters'[a] # ipLimiters[a]
              => \E c \in Callers :
                    /\ call[c].pc = "take" /\ call'[c].pc = "idle"
                    /\ call[c].op = "AllowIP" /\ call[c].key = a
        /\ \A k \in APIKeys :
              limiters'[k] # limiters[k]
              => \E c \in Callers :
                    /\ call[c].pc = "take" /\ call'[c].pc = "idle"
                    /\ call[c].op = "Allow" /\ call[c].key = k
      ]_vars

\* C19: a call on address a2 has been allowed after address a1 was
\* exhausted, the bucket of a2 having been created before the denial on a1.
C19_Witness ==
    /\ ret.op = "AllowIP" /\ ret.key = "a2" /\ ret.allowed
    /\ ret.prev.exists
    /\ ipLimiters["a1"].exists /\ ~ipLimiters["a1"].lastAllowed
    /\ ipLimiters["a1"].limiter.last >= ret.prev.at

(***************************************************************************)
(* Properties of the ownership check of DeleteFile (SpecDelete).           *)
(***************************************************************************)
\* No row has the identifier.
Missing(fileID) == \A r \in files : r.id # fileID

\* A row has the identifier and belongs to another account.
NotOwned(fileID, userID) == \E r \in files : r.id = fileID /\ r.user # userID

\* C20: a DeleteFile call for an identifier that no row has, and a call for
\* the identifier of a file of another account, return the same error,
\* FileNotFound, and change no row and no object.
C20_NotOwnedLooksMissing ==
    [][ ( /\ ret'.op = "DeleteFile"
          /\ Missing(ret'.fileID) \/ NotOwned(ret'.fileID, ret'.userID) )
        => /\ ret'.result = "FileNotFound"
           /\ files' = files /\ objects' = objects
      ]_vars

\* C20: a DeleteFile call for a file of another account, which is not
\* deleted, has returned FileNotFound.
C20_Witness ==
    /\ ret.op = "DeleteFile" /\ ret.result = "FileNotFound"
    /\ \E r \in files : /\ r.id = ret.fileID /\ r.user # ret.userID
                        /\ r.deletedAt = NULL

(***************************************************************************)
(* Bandwidth passes: skipped lines and skipped files.                      *)
(***************************************************************************)
\* A line counts when it is no comment, has the 15 fields, a byte count
\* that is a number, a path /i/<26 characters>.<ext>, and an identifier
\* with a metadata row that is not soft-deleted.
Counted(line) ==
    /\ ~line.comment
    /\ line.fields >= 15
    /\ line.scBytes \in { "5", "7" }
    /\ Len(line.uri) >= 2 /\ line.uri[1] = "i"
    /\ line.uri[2].dot /\ line.uri[2].len = 26
    /\ \E r \in files : r.id = line.uri[2].ulid /\ r.deletedAt = NULL

\* The account a counted line is charged to, and its bytes.
ChargedTo(line) ==
    (CHOOSE r \in files : r.id = line.uri[2].ulid).user
BytesOf(line) == IF line.scBytes = "5" THEN 5 ELSE 7

\* Bytes and requests of the counted lines of account u among the first n.
RECURSIVE CountedBytes(_, _, _)
CountedBytes(lines, n, u) ==
    IF n = 0 THEN 0
    ELSE CountedBytes(lines, n - 1, u)
           + (IF Counted(lines[n]) /\ ChargedTo(lines[n]) = u
              THEN BytesOf(lines[n]) ELSE 0)
RECURSIVE CountedRequests(_, _, _)
CountedRequests(lines, n, u) ==
    IF n = 0 THEN 0
    ELSE CountedRequests(lines, n - 1, u)
           + (IF Counted(lines[n]) /\ ChargedTo(lines[n]) = u THEN 1 ELSE 0)

\* The totals of account u in an aggregation.
TotalsOf(userBandwidth, u) ==
    IF u \in DOMAIN userBandwidth THEN userBandwidth[u]
    ELSE [ bytesServed |-> 0, requestCount |-> 0 ]

\* A processLogFile step: the file it read, what the step recorded of it,
\* and the aggregation after it (empty when the call returned with none).
FileStep == bw.pc = "files" /\ bw' # bw
FileStepLines == bw.logFiles[bw.idx].lines
FileStepRead ==
    LET reads == IF bw'.pc = "idle" THEN ret'.reads ELSE bw'.reads
    IN reads[Len(reads)]
FileStepAfter == IF bw'.pc = "idle" THEN << >> ELSE bw'.userBandwidth

\* C21: a log file that is read to its end adds to each account exactly
\* the bytes and the requests of its counted lines, wherever they stand in
\* the file: a comment, a line of fewer than 15 fields, a byte count that
\* is no number, a path of another shape and an identifier without a
\* current metadata row add nothing to any account and do not end the file.
C21_SkippedLinesCountNothing ==
    [][ (FileStep /\ FileStepRead.ok) =>
          /\ FileStepRead.read = Len(FileStepLines)
          /\ \A u \in UserIDs :
                /\ TotalsOf(FileStepAfter, u).bytesServed =
                     TotalsOf(bw.userBandwidth, u).bytesServed
                       + CountedBytes(FileStepLines, Len(FileStepLines), u)
                /\ TotalsOf(FileStepAfter, u).requestCount =
                     TotalsOf(bw.userBandwidth, u).requestCount
                       + CountedRequests(FileStepLines, Len(FileStepLines), u)
      ]_vars

\* C21: both log files of day d1 have been read to their ends: the lines
\* after the comment and after the short line are counted, the line of the
\* identifier without a row is not.
C21_Witness ==
    /\ bw.pc = "save" /\ bw.date = "d1" /\ bw.processedCount = 0
    /\ bw.reads = << [ ok |-> TRUE, read |-> 3 ], [ ok |-> TRUE, read |-> 3 ] >>
    /\ DOMAIN bw.userBandwidth = { "u1", "u2" }
    /\ bw.userBandwidth["u1"] = [ bytesServed |-> 12, requestCount |-> 2 ]
    /\ bw.userBandwidth["u2"] = [ bytesServed |-> 7, requestCount |-> 1 ]

\* C22, as stated: a log file for which processLogFile returns an error (the
\* fetch, the decompression or the read failed) adds nothing to the totals
\* of any account, and the pass goes on: to the next file, to the upserts,
\* or to a return without error.
C22_FailedFileAddsNothing ==
    [][ (FileStep /\ ~FileStepRead.ok) =>
          /\ \A u \in UserIDs :
                TotalsOf(FileStepAfter, u) = TotalsOf(bw.userBandwidth, u)
          /\ \/ bw'.pc = "files" /\ bw'.idx = bw.idx + 1
             \/ bw'.pc = "save"
             \/ bw'.pc = "idle" /\ ret'.op = "ProcessLogFiles" /\ ~ret'.err
      ]_vars

(***************************************************************************)
(* The values an allow call returns.                                       *)
(***************************************************************************)
\* The last step was the return of an Allow or AllowIP call.
AllowReturned == ret.op \in { "Allow", "AllowIP" }

\* C23, as stated: a call of Allow or AllowIP that returns allowed = false
\* returns remaining = 0.
C23_DeniedHasNoneRemaining ==
    (AllowReturned /\ ~ret.allowed) => ret.remaining = 0

\* The bucket of the key of the call that has returned, and the calls it
\* has allowed since its reporting window started.
ReturnedBucket ==
    IF ret.op = "Allow" THEN limiters[ret.key] ELSE ipLimiters[ret.key]
GrantedInWindow(b) ==
    Cardinality({ i \in 1 .. Len(b.granted) : b.granted[i] >= b.windowStart })

\* C24: every return of Allow or AllowIP has 0 <= remaining <= limit and
\* remaining = max(0, limit - n), n being the calls allowed for the key
\* since its reporting window started; the k-th allowed call of the first
\* window of a key, k up to the limit, returns remaining = limit - k.
C24_RemainingIsLimitLessAllowed ==
    AllowReturned =>
      LET b == ReturnedBucket
          n == GrantedInWindow(b)
      IN /\ 0 <= ret.remaining /\ ret.remaining <= ret.limit
         /\ ret.remaining = Max(0, ret.limit - n)
         /\ ( /\ ret.allowed /\ Len(b.granted) <= ret.limit
              /\ b.granted[1] = b.windowStart )
            => ret.remaining = ret.limit - Len(b.granted)

\* C24: the third call allowed within one window of a key of limit 2 has
\* returned remaining = 0.
C24_Witness ==
    /\ ret.op = "AllowIP" /\ ret.allowed /\ ret.limit = 2
    /\ ReturnedBucket.limiter.burst = 2
    /\ GrantedInWindow(ReturnedBucket) = 3
    /\ ret.remaining = 0

\* C25: the resetAt an AllowIP call returns is the windowStart of the key
\* plus the window of the call, and is later than the time of the call; for
\* the first call on a key it is the time of the call plus the window.
C25_ResetAtIsWindowEnd ==
    ret.op = "AllowIP" =>
      /\ ret.resetAt = ReturnedBucket.windowStart + ret.window
      /\ ret.resetAt > clock
      /\ ~ret.prev.exists => ret.resetAt = clock + ret.window

\* C25: a call with a window of 3 on a key whose window started 2 ago has
\* returned the end of that window, 1 from now.
C25_Witness ==
    /\ ret.op = "AllowIP" /\ ret.prev.exists /\ ret.window = 3
    /\ ReturnedBucket.windowStart = clock - 2
    /\ ret.resetAt = clock + 1

(***************************************************************************)
(* The rate gate in front of the upload pipeline.                          *)
(***************************************************************************)
\* Caller c is a request in RateLimitMiddleware, inside its Allow call or
\* back from it.
InGate(c) == call[c].pc # "idle" /\ "req" \in DOMAIN call[c]

IdleBuckets(map, maxAge) ==
    { k \in DOMAIN map : map[k].exists /\ clock - map[k].lastAccess > maxAge }

\* C27, as stated: when Cleanup(maxAge) has returned, no bucket last used
\* more than maxAge ago is left, neither in the map of the API keys nor in
\* the map of the addresses.
C27_NoIdleBucketAfterCleanup ==
    ret.op = "Cleanup" =>
      /\ IdleBuckets(limiters, ret.maxAge) = {}
      /\ IdleBuckets(ipLimiters, ret.maxAge) = {}

(***************************************************************************)
(* The order of the steps of Upload.                                       *)
(***************************************************************************)
\* C28: an object is written only by an upload that has passed its quota
\* check (with one request at a time: its size still fits the quota); a
\* row is written only by an upload whose PutObject has returned nil, and it
\* is the row of the object that call wrote; an upload whose PutObject
\* fails returns an error at once and writes no row.
C28_QuotaThenObjectThenRow ==
    [][ \A u \in Uploaders :
          /\ up[u].pc \in { "put", "create" } =>
                GetStorageUsage(up[u].user) + up[u].size <= up[u].quota
          /\ (up[u].pc = "create" /\ up'[u] # up[u] /\ files' # files) =>
                /\ up[u].s3Key \in objects
                /\ \E r \in files' : /\ files' = files \cup { r }
                                     /\ r.s3Key = up[u].s3Key
          /\ (up[u].pc = "put" /\ up'[u] # up[u]) =>
                /\ files' = files
                /\ \/ /\ objects' = objects \cup { up[u].s3Key }
                      /\ up'[u].pc = "create"
                   \/ /\ objects' = objects /\ up'[u] = IdleUp
                      /\ ret'.op = "Upload" /\ ret'.result = "InternalError"
          /\ up[u].pc \notin { "put", "create", "compensate" } =>
                (up'[u] # up[u] => files' = files /\ objects' = objects)
      ]_vars

\* C28: the second upload has committed after the first one failed: one
\* row, one object, and the quota not exceeded.
C28_Witness ==
    /\ ret.op = "Upload" /\ ret.result = "OK" /\ ret.file.id = 2
    /\ files = { ret.file } /\ objects = { ret.file.s3Key }
    /\ GetStorageUsage(ret.file.user) <= ret.quota

(***************************************************************************)
(* The trial scan and soft-deleted files.                                  *)
(***************************************************************************)
\* The rows of test accounts uploaded before the trial retention.
TrialExpired ==
    { r \in files : /\ UserByID(r.user).keyType = "test"
                    /\ r.uploadedAt < now - TrialRetentionDays }

\* The step is a query of the trial scan that returned its rows, and the
\* identifiers of the rows it returned.
TrialQuery ==
    /\ wk.pc = "find" /\ wk.scan = "test" /\ wk' # wk
    /\ wk'.pc = "loop" \/ ~wk'.test.queryFailed
TrialSelected ==
    IF wk'.pc = "loop" THEN { wk'.list[i].id : i \in 1 .. Len(wk'.list) }
    ELSE {}

\* C29, as stated: the trial scan selects every row of a test account that
\* was uploaded before the trial retention, soft-deleted or not.
C29_TrialScanSelectsSoftDeleted ==
    [][ TrialQuery => \A r \in TrialExpired : r.id \in TrialSelected ]_vars

\* C29, amended: the trial scan selects the rows of test accounts uploaded
\* before the trial retention that are not soft-deleted, and no soft-deleted
\* row; a soft-deleted row of a test account is removed by no step before
\* its deletion is older than the purge retention.
C29_TrialScanSkipsSoftDeleted ==
    [][ /\ TrialQuery =>
              TrialSelected = { r.id : r \in { x \in TrialExpired :
                                                  x.deletedAt = NULL } }
        /\ \A r \in TrialExpired :
              (r.deletedAt # NULL /\ r.deletedAt >= now - PurgeRetentionDays)
                 => r \in files'
      ]_vars

\* C29: the trial scan has selected an expired file of the test account
\* and left out another one, which its owner had soft-deleted.
C29_Witness ==
    /\ wk.pc = "loop" /\ wk.scan = "test" /\ wk.idx = 1
    /\ Len(wk.list) = 1
    /\ \E r \in TrialExpired : r.deletedAt = NULL /\ r.id = wk.list[1].id
    /\ \E r \in TrialExpired : r.deletedAt # NULL

(***************************************************************************)
(* Objects without a metadata row.                                         *)
(***************************************************************************)
\* The object of key k is in the bucket, no row names it and no upload in
\* flight is about to: the upload that wrote it has returned an error.
Orphaned(k) ==
    /\ k \in objects
    /\ \A r \in files : r.s3Key # k
    /\ \A u \in Uploaders : up[u].pc # "idle" => up[u].s3Key # k

\* The keys uploads can write.
UploadKeys == { generateFileKeys(id, "jpg").s3Key : id \in 1 .. MaxOrphanFiles }

\* C30, as stated: when an upload has left an object without a metadata
\* row, passes of the worker run again and again eventually delete it.
C30_OrphanEventuallyDeleted ==
    \A k \in UploadKeys : Orphaned(k) ~> (k \notin objects)

\* C30, amended: an object without a metadata row is deleted by no step:
\* the worker deletes the objects of the rows its scans return, and an
\* upload that has returned deletes nothing.
C30_OrphanIsNeverDeleted ==
    [][ \A k \in UploadKeys : Orphaned(k) => Orphaned(k)' ]_vars

\* C30: a live pass has deleted the expired file of a committed upload and
\* returned without error, on the last day; the object of the upload whose
\* compensating delete failed is still in the bucket.
C30_Witness ==
    /\ ret.op = "runWorker" /\ ~ret.dryRun /\ ~ret.testErr /\ ~ret.softErr
    /\ ret.test.dbDeleted # {}
    /\ now + 8 > MaxClock
    /\ files = {}
    /\ \E k \in UploadKeys : Orphaned(k)

(***************************************************************************)
(* C31: the reporting counter and the limit.                               *)
(***************************************************************************)
\* The limit a bucket was created for: the burst of its rate.Limiter.
LimitOf(b) == b.limiter.burst

\* C31: in every reachable state the in-window count of every bucket, of an
\* API key or of an address, is at most the limit of the bucket, also when
\* tokens were refilled during the window.
C31_CountNeverExceedsLimit ==
    /\ \A k \in DOMAIN limiters :
          limiters[k].exists => limiters[k].count <= LimitOf(limiters[k])
    /\ \A a \in DOMAIN ipLimiters :
          ipLimiters[a].exists => ipLimiters[a].count <= LimitOf(ipLimiters[a])

(***************************************************************************)
(* SpecPlans: one caller whose account changes plan between its calls      *)
(* (Allow is called with the plan read for the request), and calls of      *)
(* AllowIP with several limits and windows for one address.                *)
(***************************************************************************)
NextPlans ==
    \/ \E p \in Plans : ncalls < MaxPlanCalls /\ Allow(1, "k1", p)
    \/ \E l \in IPLimits, w \in Windows :
          ncalls < MaxPlanCalls /\ AllowIP(1, "a1", l, w)
    \/ Lock(1)
    \/ Lookup(1)
    \/ Take(1)
    \/ TickClock

SpecPlans == InitLimiter /\ [][NextPlans]_vars

\* C32: the capacity of the bucket that decided a call (the burst of its
\* rate.Limiter, which is what a burst with no elapsed time can be admitted
\* up to) is the limit the call returns, also after the plan of the account
\* has changed and after AllowIP was called with another limit.
C32_CapacityIsReturnedLimit ==
    AllowReturned => LimitOf(ReturnedBucket) = ret.limit

(***************************************************************************)
(* C33: Upload and the metadata row.                                       *)
(***************************************************************************)
\* A step in which the Upload call of u returns.
UploadReturns(u) == ret'.op = "Upload" /\ ret'.by = u /\ up'[u].pc = "idle"

\* C33: when an Upload call returns an error, no row was added, and there is
\* no row for the identifier the call generated; when it returns a file, the
\* row of that file is in the metadata store with the declared size, and the
\* object is in the object store under the storage key of the row.
C33_UploadIsAllOrNothing ==
    [][ \A u \in Uploaders : UploadReturns(u) =>
          IF ret'.result = "OK"
          THEN /\ up[u].pc = "create"
               /\ ret'.file \in files'
               /\ ret'.file.id = up[u].id
               /\ ret'.file.size = up[u].size
               /\ ret'.file.s3Key = up[u].s3Key
               /\ ret'.file.s3Key \in objects'
          ELSE /\ files' = files
               /\ up[u].pc # "idle" => ~ \E r \in files' : r.id = up[u].id ]_vars

\* C33: an Upload call has returned an error after its object was written:
\* Create failed, the compensating delete failed, the object is in the store
\* and the identifier has no row.
C33_Witness ==
    /\ ret.op = "Upload" /\ ret.result = "InternalError"
    /\ << nextId - 1, "jpg" >> \in objects
    /\ ~ \E r \in files : r.id = nextId - 1

(***************************************************************************)
(* SpecDeleteRace: two requests of the owner that delete the same files,   *)
(* one of them stepping through DeleteFile, the other running it whole;    *)
(* no statement of the metadata store fails.                               *)
(***************************************************************************)
NextDeleteRace ==
    \/ UploadCheck(1, "k1", 10, "jpg", "none")
    \/ \E ok \in BOOLEAN : UploadPut(1, ok)
    \/ \E ok \in BOOLEAN : UploadCreate(1, ok)
    \/ \E ok \in BOOLEAN : UploadCompensate(1, ok)
    \/ \E f \in 1 .. idLimit : DeleteFind(f, "u1", TRUE)
    \/ DeleteSoft(TRUE)
    \/ \E f \in 1 .. idLimit : DeleteFile(f, "u1")
    \/ \E d \in { 8 } : Tick(d)

SpecDeleteRace == InitDelete /\ [][NextDeleteRace]_vars

\* The file of the identifier is soft-deleted.
SoftDeleted(fileID) == \E r \in files : r.id = fileID /\ r.deletedAt # NULL

\* C34: the deleted timestamp of a row is written at most once: no step
\* changes a timestamp that is set, and a DeleteFile call of the owner that
\* returns when the file is already soft-deleted returns the not-found error,
\* whatever the interleaving of the calls.
C34_DeletedAtWrittenOnce ==
    [][ /\ \A r \in files : r.deletedAt # NULL =>
              \A q \in files' : q.id = r.id => q.deletedAt = r.deletedAt
        /\ (ret'.op = "DeleteFile" /\ SoftDeleted(ret'.fileID))
              => ret'.result = "FileNotFound" ]_vars

(***************************************************************************)
(* SpecPurge: live passes of the cleanup worker, run again and again, over *)
(* files of day 0 on day 31: the query of each scan, the delete of an      *)
(* object and the delete of a row each succeed infinitely often when they  *)
(* are attempted infinitely often. Every store operation can also fail,    *)
(* as it does under a cancelled context.                                   *)
(***************************************************************************)
\* The stores of InitWorker with MaxPurgeFiles files, all uploaded on day 0.
InitPurge ==
    /\ InitLimiterVars
    /\ InitBandwidthVars
    /\ maxFileSizeTest = loadMaxFileSizes("")
    /\ maxFileSizeLive = DefaultMaxFileSizeLive
    /\ idLimit = MaxPurgeFiles
    /\ nextId = MaxPurgeFiles + 1
    /\ now = 31
    /\ \E deletedAt \in [ 1 .. MaxPurgeFiles -> { NULL, 0, 8 } ] :
          files = { UploadedFile(i, OwnerOf(i), 0, deletedAt[i])
                      : i \in 1 .. MaxPurgeFiles }
    /\ objects = { r.s3Key : r \in files }
    /\ up = [ u \in Uploaders |-> IdleUp ]
    /\ del = [ pc |-> "idle" ]
    /\ wk = IdleWk
    /\ cancelled = FALSE
    /\ ret = NoReturn

NextPurge ==
    \/ WorkerStart(FALSE)
    \/ \E ok \in BOOLEAN : CleanupFind(ok)
    \/ \E ok \in BOOLEAN : CleanupObject(ok)
    \/ \E ok \in BOOLEAN : CleanupPermanentlyDelete(ok)
    \/ \E d \in { 8 } : Tick(d)

\* The pass is in the scan named.
InScan(scan) == wk.pc # "idle" /\ wk.scan = scan

SpecPurge ==
    /\ InitPurge /\ [][NextPurge]_vars
    /\ SF_vars(WorkerStart(FALSE))
    /\ SF_vars(InScan("test") /\ CleanupFind(TRUE))
    /\ SF_vars(InScan("soft") /\ CleanupFind(TRUE))
    /\ SF_vars(CleanupObject(TRUE))
    /\ SF_vars(CleanupPermanentlyDelete(TRUE))

\* The file of the identifier is due: soft-deleted for longer than the purge
\* retention, or a file of a test account, not soft-deleted, uploaded before
\* the trial retention.
Due(id) ==
    \E r \in files :
       /\ r.id = id
       /\ \/ r \in OldSoftDeleted
          \/ r \in TrialExpired /\ r.deletedAt = NULL

\* The file of the identifier is purged: its row and its object are gone.
Purged(id) ==
    /\ ~ \E r \in files : r.id = id
    /\ generateFileKeys(id, "jpg").s3Key \notin objects

\* C35: under repeated passes whose store operations succeed again and
\* again, every file that is due is eventually purged, row and object, also
\* when an earlier pass deleted the object and failed to delete the row.
C35_DueIsEventuallyPurged ==
    \A id \in 1 .. MaxPurgeFiles : Due(id) ~> Purged(id)

\* C35: a pass has ended after it deleted the object of a due file and
\* failed to delete its row: the row is there and the object is not.
C35_Witness ==
    /\ wk.pc = "idle"
    /\ \E r \in files : Due(r.id) /\ r.s3Key \notin objects

(***************************************************************************)
(* C36: the records of a day after a pass.                                 *)
(***************************************************************************)
\* The record a pass writes for an account of its aggregation.
RecordOf(totals, userID, date) ==
    [ user |-> userID, date |-> date, bytes |-> totals[userID].bytesServed,
      requests |-> totals[userID].requestCount ]

\* The records of the aggregation of the pass that returned.
RunRecords(r) == { RecordOf(r.totals, u, r.date) : u \in DOMAIN r.totals }

\* A pass has returned with no failed listing, log file or upsert.
CleanReturn(r) == r.op = "ProcessLogFiles" /\ r.clean

StoreFaults == { "FindByAPIKey", "GetStorageUsage" }

\* C37: an Upload call in which a query of the identity or metadata store
\* failed returns InternalError, whatever the key, the size and the type of
\* the request.
C37_StoreFailureIsInternalError ==
    (ret.op = "Upload" /\ ret.fault \in StoreFaults)
        => ret.result = "InternalError"

(***************************************************************************)
(* C38: the reporting window and the clock hour.                           *)
(***************************************************************************)
\* StatsService.GetUsageStats: resetsAt is the start of the clock hour after
\* the one of now.
ResetsAt(t) == (t \div Hour + 1) * Hour

\* C38: the windowStart of every bucket of an API key is a whole-hour
\* boundary, and the resetAt an Allow call returns is the reset instant
\* GetUsageStats reports at the same time: the start of the next clock hour.
C38_WindowIsHourAligned ==
    /\ \A k \in DOMAIN limiters :
          limiters[k].exists => limiters[k].windowStart % Hour = 0
    /\ ret.op = "Allow" => ret.resetAt = ResetsAt(clock)

(***************************************************************************)
(* C39: the totals of a pass without failures.                             *)
(***************************************************************************)
\* The lines of the day's log files, as (file, line) positions, that are
\* valid and whose identifier resolves to the account: not a comment, 15
\* fields or more, a number in sc-bytes, a /i/<ulid>.<ext> URI, and a row
\* that is not soft-deleted and belongs to the account.
HitsOf(date, userID) ==
    LET logFiles == listLogFiles(date) IN
    { p \in (1 .. Len(logFiles)) \X (1 .. 3) :
        /\ p[2] <= Len(logFiles[p[1]].lines)
        /\ LET line == logFiles[p[1]].lines[p[2]] IN
           /\ ~line.comment
           /\ line.fields >= 15
           /\ ParseInt(line.scBytes).ok
           /\ extractULIDFromURI(line.uri).ok
           /\ \E r \in FindByID(extractULIDFromURI(line.uri).ulid) :
                 r.user = userID }

\* The sum of the sc-bytes of a set of lines.
RECURSIVE SumBytes(_, _)
SumBytes(date, hits) ==
    IF hits = {} THEN 0
    ELSE LET p == CHOOSE x \in hits : TRUE
         IN ParseInt(listLogFiles(date)[p[1]].lines[p[2]].scBytes).value
              + SumBytes(date, hits \ { p })

\* The accounts with a hit in the logs of the day.
AccountsHit(date) == { u \in UserIDs : HitsOf(date, u) # {} }

SoftDeletedByStep ==
    { r \in files : /\ r.deletedAt = NULL
                    /\ \E q \in files' : q.id = r.id /\ q.deletedAt # NULL }

\* C40: a step that soft-deletes a file leaves no row for FindByID of its
\* identifier and none in the listing of its account, lowers the storage
\* usage of the account by the size of the file, and leaves the object store
\* as it was; and the quota check of an upload compares the usage of the
\* state it runs in: an upload goes on only if usage + size is within the
\* quota, and is rejected for the quota only if it is not.
C40_SoftDeleteFreesQuota ==
    [][ /\ \A r \in SoftDeletedByStep :
              /\ FindByID(r.id)' = {}
              /\ \A q \in FindByUserID(r.user)' : q.id # r.id
              /\ GetStorageUsage(r.user)' = GetStorageUsage(r.user) - r.size
              /\ objects' = objects
        /\ \A u \in Uploaders :
              (up[u].pc = "idle" /\ up'[u].pc = "put") =>
                  GetStorageUsage(up'[u].user) + up'[u].size <= up'[u].quota
        /\ (ret'.op = "Upload" /\ ret'.result = "QuotaExceeded"
              /\ up[ret'.by].pc = "idle") =>
              \A user \in FindByAPIKey(ret'.apiKey) :
                  GetStorageUsage(user.id) + ret'.size
                      > getStorageQuotaForPlan(user.plan) ]_vars

\* C40: an upload of 80 MB has passed its quota check, and no other upload
\* has committed since, while a soft-deleted file of 80 MB of the same
\* account has its object in the object store: with that file counted the
\* upload would not fit the quota.
C40_Witness ==
    \E u \in Uploaders, r \in files :
        /\ up[u].pc = "put" /\ up[u].others = << >>
        /\ r.user = up[u].user /\ r.deletedAt # NULL /\ r.s3Key \in objects
        /\ GetStorageUsage(r.user) + r.size + up[u].size > up[u].quota

====
